---- MODULE Spec2Model ----
(***************************************************************************)
(* Model of the real-time pipeline of server/routes.ts for one user:       *)
(*   - the bot lifecycle (startTradingBot / stopTradingBot, the interval   *)
(*     timers held in activeBots and the requests that start or stop it),  *)
(*   - the scheduler callback registered by setInterval,                   *)
(*   - the tick handler handleAlpacaWebsocketMessage.                      *)
(*   - the websocket connections: activeConnections, broadcastToUser and   *)
(*     the auth and close handlers, and the mock-data intervals,           *)
(*   - the routes POST /api/positions/close and POST /api/api-keys,        *)
(*   - generateSignal of the learned-model strategy,                       *)
(*   - the client hook useWebSocket.                                       *)
(*                                                                         *)
(* Every async function is cut at its awaits.  One action is the code that *)
(* runs between two awaits: the continuation of the call awaited before,   *)
(* up to and including the next call it issues.  A storage call takes      *)
(* effect when it is issued; its result is used by the next step of the    *)
(* same invocation, so anything may run in between.  A broker call         *)
(* succeeds or fails when it resolves.                                     *)
(***************************************************************************)
EXTENDS Integers, Sequences, FiniteSets, TLC

\* ---------------------------------------------------------------- bounds
MaxReqs == 2
MaxFires == 2
MaxTicks == 2
MaxCalls == 2
MaxSockets == 4
MaxStream == 3
MaxUpsertTicks == 1

\* ------------------------------------------------------ program constants
ConfidenceGate == 70
DefaultQty == 1
IntervalLow == 300000
IntervalMedium == 60000
IntervalHigh == 10000

\* ---------------------------------------------------------------- domains
Symbols == {"BTCUSD", "ETHUSD"}
Prices == {95, 100, 105}
\* every entry price divides 100 * (p - e) for every p in Prices, so the
\* percentage (p - e) / e * 100 is an integer and \div is exact on it
EntryPrices == {50, 100}
Quantities == {1, 2}
\* schema.ts line 26: trading_frequency is a text column; "hourly" stands for
\* a value outside the three the switch of lines 344-354 knows
Frequencies == {"low", "medium", "high", "hourly"}
Strategies == {"momentum", "reinforcement"}
Actions == {"buy", "sell", "hold"}
Confidences == {70, 85}
KeyKinds == {"none", "live", "test"}
NoTimer == 0

VARIABLES
    apiKey,          \* storage: the user's API key ("none" when there is none)
    botSettings,     \* storage: BotSettings row of the user
    positions,       \* storage: set of position rows of the user
    nextPosId,       \* storage: serial id of the next position row
    trades,          \* storage: sequence of trade rows
    logs,            \* storage: sequence of system-log rows
    metrics,         \* storage: the user has a PerformanceMetrics row
    activeBots,      \* activeBots.get(userId), NoTimer when absent
    timers,          \* every interval created by setInterval, live or cleared
    marketDataCache, \* marketDataCache: symbol -> last price (0: no entry)
    reqs,            \* message / request handlers, in arrival order
    starts,          \* invocations of startTradingBot
    scheds,          \* invocations of the interval callback
    ticks,           \* invocations of handleAlpacaWebsocketMessage
    modelLoaded,     \* rlStrategy.modelLoaded of the singleton learned-model strategy
    startSinceStop,  \* history: a start was requested after the last stop request
    firedAfterStop,  \* history: a callback started while startSinceStop was FALSE
    activeConnections, \* activeConnections: userId -> list of connections
    sockets,         \* every accepted connection: readyState, the handler's
                     \* userId variable (line 463), and what was sent to it
    sent,            \* number of messages serialised by broadcastToUser (line 31)
    mockTimers,      \* live mock-market-data intervals of the user (line 529)
    hook,            \* client: the refs and sockets of one useWebSocket hook
    rl,              \* the learned-model strategy: points stored per symbol
                     \* (marketData) and its last generateSignal call
    keyRow           \* storage: the API-key row as POST /api/api-keys wrote it

vars == <<apiKey, botSettings, positions, nextPosId, trades, logs, metrics, activeBots,
          timers, marketDataCache, reqs, starts, scheds, ticks, modelLoaded,
          startSinceStop, firedAfterStop, activeConnections, sockets, sent,
          mockTimers, hook, rl, keyRow>>

hubVars == <<activeConnections, sockets, sent, mockTimers, hook, rl, keyRow>>

storeVars == <<apiKey, botSettings, positions, nextPosId, trades, logs, metrics>>

\* ------------------------------------------------------------ the storage
\* The persistence layer is a collaborator of routes.ts: a CRUD store whose
\* calls are asynchronous.  These operators are its load/save interface.
getBotSettingsByUserId == botSettings

updateBotSettings(patch) == [f \in DOMAIN botSettings |->
    IF f \in DOMAIN patch THEN patch[f] ELSE botSettings[f]]

getApiKeyByUserId == apiKey

createSystemLog(level) == Append(logs, level)

\* ---------------------------------------------------- connections (17-38)
\* User is the user whose store and bot are modelled; the other user of
\* Users has no bot settings and no API key.
User == 1
Users == {1, 2}
Conns == {"c1", "c2"}
NoUser == 0

\* line 462: a connection as accepted, before any message
NewSocket == [readyState |-> "OPEN", userId |-> NoUser, closeEvent |-> "none",
              inbox |-> <<>>]

Message(type, n) == [type |-> type, n |-> n]

\* mutant of sendIfOpen: the message overtakes what was sent before
sendIfOpen_Front(socks, c, m) ==
    IF socks[c].readyState = "OPEN"
      THEN [socks EXCEPT ![c].inbox = <<m>> \o @]
      ELSE socks

\* lines 34-36: send to one socket if it is OPEN
sendIfOpen(socks, c, m) ==
    IF socks[c].readyState = "OPEN"
      THEN [socks EXCEPT ![c].inbox = Append(@, m)]
      ELSE socks

\* lines 33-37: connections.forEach, in list order
RECURSIVE forEachSocket(_, _, _)
forEachSocket(socks, list, m) ==
    IF list = <<>> THEN socks
    ELSE forEachSocket(sendIfOpen(socks, Head(list), m), Tail(list), m)

\* mutant of broadcastToUser: without an entry for the user the message goes
\* to every accepted socket
broadcastToUser_Fallback(u, type) ==
    /\ sockets' = forEachSocket(sockets,
                     IF u \in DOMAIN activeConnections THEN activeConnections[u]
                                                        ELSE <<"c1", "c2">>,
                     Message(type, sent + 1))
    /\ sent' = sent + 1
    /\ UNCHANGED <<activeConnections, mockTimers, hook, rl, keyRow>>

\* lines 27-38: broadcastToUser.  Without an entry for the user it returns at
\* line 29; otherwise the message is serialised once and sent down the list.
broadcastToUser(u, type) ==
    IF u \notin DOMAIN activeConnections
      THEN UNCHANGED hubVars
      ELSE /\ sockets' = forEachSocket(sockets, activeConnections[u],
                                        Message(type, sent + 1))
           /\ sent' = sent + 1
           /\ UNCHANGED <<activeConnections, mockTimers, hook, rl, keyRow>>

\* lines 473-478: the list is created when absent, then the socket is pushed
register(u, c) ==
    IF u \in DOMAIN activeConnections
      THEN [activeConnections EXCEPT ![u] = Append(@, c)]
      ELSE activeConnections @@ (u :> <<c>>)

\* lines 605-609: indexOf and splice(index, 1): the first occurrence goes
RECURSIVE removeFirst(_, _)
removeFirst(list, c) ==
    IF list = <<>> THEN <<>>
    ELSE IF Head(list) = c THEN Tail(list)
    ELSE <<Head(list)>> \o removeFirst(Tail(list), c)

\* lines 601-615: the close handler's effect on activeConnections
unregister(u, c) ==
    IF u = NoUser \/ u \notin DOMAIN activeConnections
      THEN activeConnections
      ELSE LET rest == removeFirst(activeConnections[u], c)
           IN IF rest = <<>>
                THEN [v \in DOMAIN activeConnections \ {u} |-> activeConnections[v]]
                ELSE [activeConnections EXCEPT ![u] = rest]

\* useWebSocket.ts 5-8: the hook as created, before its effect has run.
\* sockets and timers are the WebSocket objects and the timeouts it has made;
\* idle and last are history (the caller's last call was disconnect; the
\* kind of the last step).
NoHook == [sockets |-> <<>>, socketRef |-> 0, timers |-> <<>>,
           reconnectTimeoutRef |-> 0, connected |-> FALSE,
           idle |-> FALSE, last |-> "none"]

\* reinforcementLearningStrategy.ts 26, 62-65: no point stored, no call made
NoRl == [marketData |-> [s \in Symbols |-> 0], calls |-> 0,
         last |-> [symbol |-> "", loaded |-> FALSE, dataLength |-> 0,
                   stored |-> [s \in Symbols |-> 0],
                   predicted |-> [threw |-> FALSE, action |-> 0],
                   result |-> [action |-> "none", confidence |-> 0]]]

\* no row written by POST /api/api-keys
NoKeyRow == [alpacaApiKey |-> <<>>, alpacaSecretKey |-> <<>>, environment |-> ""]

NoHub ==
    /\ activeConnections = <<>>
    /\ sockets = [c \in Conns |-> NewSocket]
    /\ sent = 0
    /\ mockTimers = 0
    /\ hook = NoHook
    /\ rl = NoRl
    /\ keyRow = NoKeyRow

\* The dashboard connection c1 of the user has authenticated and its handler
\* has run to its end: the socket is listed and has been sent initialData.
Dashboard ==
    /\ activeConnections = (User :> <<"c1">>)
    /\ sockets = [c \in Conns |->
                    IF c = "c1"
                      THEN [NewSocket EXCEPT !.userId = User,
                                             !.inbox = <<Message("initialData", 0)>>]
                      ELSE NewSocket]
    /\ sent = 0
    /\ mockTimers = 0
    /\ hook = NoHook
    /\ rl = NoRl
    /\ keyRow = NoKeyRow

\* --------------------------------------------------------------- timers
LiveTimers == {t \in DOMAIN timers : timers[t].live}

\* routes.ts stopTradingBot: clearInterval on the recorded handle, then delete
stopTradingBot_timers ==
    IF activeBots # NoTimer
      THEN [timers EXCEPT ![activeBots].live = FALSE]
      ELSE timers

stopTradingBot_activeBots == NoTimer

\* mutant of updateInterval: the case of "high" is missing from the switch
updateInterval_NoHigh(freq) ==
    CASE freq = "low" -> IntervalLow
      [] OTHER -> IntervalMedium

\* routes.ts startTradingBot, the switch on botSettings.tradingFrequency
updateInterval(freq) ==
    CASE freq = "low" -> IntervalLow
      [] freq = "medium" -> IntervalMedium
      [] freq = "high" -> IntervalHigh
      [] OTHER -> IntervalMedium

IsTestMode(k) == k = "test"

\* ------------------------------------------------------------------ Init
\* No timer has been created.  The user exists, with a BotSettings row and
\* possibly an API key; no position, trade, log or metrics row has been
\* written yet.  The user's dashboard is connected and authenticated (it did
\* so while the user had no API key, so that nothing else was started).
MarketValue(q, p) == q * p
UnrealizedPl(q, p, e) == q * (p - e)
UnrealizedPlPerc(p, e) == ((p - e) * 100) \div e

PositionRow(id, sym, q, e, p) ==
    [id |-> id, symbol |-> sym, qty |-> q, entryPrice |-> e, currentPrice |-> p,
     marketValue |-> MarketValue(q, p), unrealizedPl |-> UnrealizedPl(q, p, e),
     unrealizedPlPerc |-> UnrealizedPlPerc(p, e)]

SettingsRows == [isActive : BOOLEAN, strategy : Strategies,
                 tradingFrequency : Frequencies]

Init ==
    /\ apiKey \in KeyKinds
    /\ botSettings \in SettingsRows
    /\ positions = {}
    /\ nextPosId = 1
    /\ trades = <<>>
    /\ logs = <<>>
    /\ metrics = FALSE
    /\ activeBots = NoTimer
    /\ timers = <<>>
    /\ marketDataCache = [s \in Symbols |-> 0]
    /\ reqs = <<>>
    /\ starts = <<>>
    /\ scheds = <<>>
    /\ ticks = <<>>
    /\ modelLoaded = FALSE
    /\ startSinceStop = TRUE
    /\ firedAfterStop = FALSE
    /\ Dashboard

\* ------------------------------------------------- startTradingBot (271-444)
\* No other start or stop is in flight: every startTradingBot call has
\* returned and the only handler still running is the one making this call.
Alone ==
    /\ \A k \in DOMAIN starts : starts[k].pc = "done"
    /\ Cardinality({k \in DOMAIN reqs : reqs[k].pc # "done"}) = 1

\* mutant of InvokeStart: line 273 is missing, the old handle is left alone
InvokeStart_NoStop ==
    /\ UNCHANGED <<timers, activeBots>>
    /\ starts' = Append(starts, [pc |-> "settings", apiKey |-> getApiKeyByUserId,
                                 settings |-> botSettings, cleared |-> activeBots,
                                 alone |-> IF Alone THEN Len(reqs) ELSE 0])
    /\ startSinceStop' = TRUE

\* The synchronous head of startTradingBot, run inside the caller's step:
\* stopTradingBot (273) runs at once, then the API key is read (276).  The record of the call keeps the handle that line
\* 273 cleared and, when nothing else was in flight, the number of requests
\* received so far.
InvokeStart ==
    /\ timers' = stopTradingBot_timers
    /\ activeBots' = stopTradingBot_activeBots
    /\ starts' = Append(starts, [pc |-> "settings", apiKey |-> getApiKeyByUserId,
                                 settings |-> botSettings, cleared |-> activeBots,
                                 alone |-> IF Alone THEN Len(reqs) ELSE 0])
    /\ startSinceStop' = TRUE

\* The call of stopTradingBot made by a stop request (578, 783).
InvokeStop ==
    /\ timers' = stopTradingBot_timers
    /\ activeBots' = stopTradingBot_activeBots
    /\ startSinceStop' = FALSE
    /\ UNCHANGED starts

\* line 277: storage.getBotSettingsByUserId
StartReadSettings(i) ==
    /\ starts[i].pc = "settings"
    /\ starts' = [starts EXCEPT ![i].pc = "check",
                                 ![i].settings = getBotSettingsByUserId]
    /\ UNCHANGED <<storeVars, activeBots, timers, marketDataCache, reqs, scheds,
                   ticks, modelLoaded, startSinceStop, firedAfterStop>>
    /\ UNCHANGED hubVars

\* line 279: the precondition
StartPrecondition(s) == s.apiKey # "none" /\ s.settings.isActive

\* lines 279-333: return, or initialise the learned model, or log the start
StartCheck(i) ==
    /\ starts[i].pc = "check"
    /\ IF ~StartPrecondition(starts[i])
         THEN /\ starts' = [starts EXCEPT ![i].pc = "done"]
              /\ UNCHANGED logs
         ELSE IF starts[i].settings.strategy = "reinforcement"
           THEN /\ starts' = [starts EXCEPT ![i].pc = "rlLoad"]
                /\ UNCHANGED logs
           ELSE /\ starts' = [starts EXCEPT ![i].pc = "arm"]
                /\ logs' = createSystemLog("INFO")
    /\ UNCHANGED <<apiKey, botSettings, positions, nextPosId, trades, metrics, activeBots,
                   timers, marketDataCache, reqs, scheds, ticks, modelLoaded,
                   startSinceStop, firedAfterStop>>
    /\ UNCHANGED hubVars

\* lines 302-314: rlStrategy.loadModel() resolved (a model file exists or not),
\* then the INFO log of the initialisation
StartRlLoaded(i) ==
    /\ starts[i].pc = "rlLoad"
    /\ \E found \in BOOLEAN : modelLoaded' = (modelLoaded \/ found)
    /\ logs' = createSystemLog("INFO")
    /\ starts' = [starts EXCEPT ![i].pc = "rlLogged"]
    /\ UNCHANGED <<apiKey, botSettings, positions, nextPosId, trades, metrics, activeBots,
                   timers, marketDataCache, reqs, scheds, ticks,
                   startSinceStop, firedAfterStop>>
    /\ UNCHANGED hubVars

\* lines 327-333: the INFO log "Bot started"
StartLog(i) ==
    /\ starts[i].pc = "rlLogged"
    /\ logs' = createSystemLog("INFO")
    /\ starts' = [starts EXCEPT ![i].pc = "arm"]
    /\ UNCHANGED <<apiKey, botSettings, positions, nextPosId, trades, metrics, activeBots,
                   timers, marketDataCache, reqs, scheds, ticks, modelLoaded,
                   startSinceStop, firedAfterStop>>
    /\ UNCHANGED hubVars

\* lines 335-443: botStatus broadcast, setInterval, activeBots.set
StartArm(i) ==
    /\ starts[i].pc = "arm"
    /\ timers' = Append(timers,
          [live |-> TRUE,
           period |-> updateInterval(starts[i].settings.tradingFrequency)])
    /\ activeBots' = Len(timers) + 1
    /\ starts' = [starts EXCEPT ![i].pc = "done"]
    /\ UNCHANGED <<storeVars, marketDataCache, reqs, scheds, ticks, modelLoaded,
                   startSinceStop, firedAfterStop>>
    /\ broadcastToUser(User, "botStatus")

\* ------------------------------------------ websocket messages (465-598)
ReqKinds == {"auth", "startBot", "stopBot", "post"}
ReqDone(r) == r.pc = "done"

\* A message or request arrives and its handler runs up to its first await.
\*   auth (470-484): registers the connection and issues the reads that feed
\*     initialData (positions, trades, metrics and logs are read for the
\*     reply only and are taken as one step)
\*   startBot (567), stopBot (574), POST /api/bot-settings (768):
\*     storage.getBotSettingsByUserId, of which only the row's existence and
\*     id are used
\* body: the validated body of a POST; for auth, the settings read at 485
NoBody == [isActive |-> FALSE, strategy |-> "momentum", tradingFrequency |-> "medium"]

\* c, u: the connection a websocket message arrives on and the userId it
\*   carries (auth) or that the handler holds from an earlier auth (line 565);
\*   an HTTP request has no connection
NoConn == "http"

ReqArrive(kind, body, c, u) ==
    /\ Len(reqs) < MaxReqs
    /\ IF kind = "post"
         THEN c = NoConn /\ u = User
         ELSE /\ c \in Conns /\ u \in Users
              /\ sockets[c].closeEvent = "none"
              /\ kind # "auth" => (sockets[c].userId = u /\ u = User)
    /\ reqs' = Append(reqs,
          [kind |-> kind,
           pc |-> IF kind = "auth" THEN "settings" ELSE "update",
           body |-> body,
           key |-> "none",
           conn |-> c,
           user |-> u])
    /\ IF kind = "auth"
         THEN /\ activeConnections' = register(u, c)
              /\ sockets' = [sockets EXCEPT ![c].userId = u]
         ELSE UNCHANGED <<activeConnections, sockets>>
    /\ startSinceStop' =
         (startSinceStop \/ kind = "startBot" \/ (kind = "post" /\ body.isActive))
    /\ UNCHANGED <<storeVars, activeBots, timers, marketDataCache, starts, scheds,
                   ticks, modelLoaded, firedAfterStop, sent,
                   mockTimers, hook, rl, keyRow>>

\* auth, line 485: storage.getBotSettingsByUserId
AuthReadSettings(i) ==
    /\ reqs[i].kind = "auth" /\ reqs[i].pc = "settings"
    /\ reqs' = [reqs EXCEPT ![i].pc = "key",
                              ![i].body = IF reqs[i].user = User
                                            THEN getBotSettingsByUserId ELSE NoBody]
    /\ UNCHANGED <<storeVars, activeBots, timers, marketDataCache, starts, scheds,
                   ticks, modelLoaded, startSinceStop, firedAfterStop>>
    /\ UNCHANGED hubVars

\* auth, line 486: storage.getApiKeyByUserId
AuthReadKey(i) ==
    /\ reqs[i].kind = "auth" /\ reqs[i].pc = "key"
    /\ reqs' = [reqs EXCEPT ![i].pc = "initial",
                              ![i].key = IF reqs[i].user = User
                                           THEN getApiKeyByUserId ELSE "none"]
    /\ UNCHANGED <<storeVars, activeBots, timers, marketDataCache, starts, scheds,
                   ticks, modelLoaded, startSinceStop, firedAfterStop>>
    /\ UNCHANGED hubVars

\* auth, lines 488-556: initialData is sent on the handler's own socket; with
\* an API key the connection is logged (INFO).  ws.send on a socket that is
\* no longer OPEN sends nothing and, depending on the ws release, throws
\* into the handler's catch (595) or returns.
AuthInitialData(i) ==
    /\ reqs[i].kind = "auth" /\ reqs[i].pc = "initial"
    /\ sockets' = sendIfOpen(sockets, reqs[i].conn, Message("initialData", 0))
    /\ \/ /\ reqs[i].key # "none"
          /\ logs' = createSystemLog("INFO")
          /\ reqs' = [reqs EXCEPT ![i].pc = "start"]
       \/ /\ reqs[i].key = "none"
          /\ reqs' = [reqs EXCEPT ![i].pc = "done"]
          /\ UNCHANGED logs
       \/ /\ sockets[reqs[i].conn].readyState # "OPEN"
          /\ reqs' = [reqs EXCEPT ![i].pc = "done"]
          /\ UNCHANGED logs
    /\ UNCHANGED <<apiKey, botSettings, positions, nextPosId, trades, metrics, activeBots,
                   timers, marketDataCache, starts, scheds, ticks, modelLoaded,
                   startSinceStop, firedAfterStop, activeConnections, sent,
                   mockTimers, hook, rl, keyRow>>

\* auth, lines 524-561: the INFO log returned.  With a test-mode key the
\* mock-data interval is created (529); then startTradingBot is called if
\* the settings read at 485 are active
AuthStart(i) ==
    /\ reqs[i].kind = "auth" /\ reqs[i].pc = "start"
    /\ reqs' = [reqs EXCEPT ![i].pc = "done"]
    /\ IF reqs[i].body.isActive
         THEN InvokeStart
         ELSE UNCHANGED <<timers, activeBots, starts, startSinceStop>>
    /\ mockTimers' = (IF IsTestMode(reqs[i].key) THEN mockTimers + 1 ELSE mockTimers)
    /\ UNCHANGED <<storeVars, marketDataCache, scheds, ticks, modelLoaded,
                   firedAfterStop>>
    /\ UNCHANGED <<activeConnections, sockets, sent, hook, rl, keyRow>>

\* startBot, line 570: storage.updateBotSettings(id, {isActive: true})
StartBotUpdate(i) ==
    /\ reqs[i].kind = "startBot" /\ reqs[i].pc = "update"
    /\ botSettings' = updateBotSettings([isActive |-> TRUE])
    /\ reqs' = [reqs EXCEPT ![i].pc = "start"]
    /\ UNCHANGED <<apiKey, positions, nextPosId, trades, logs, metrics, activeBots, timers,
                   marketDataCache, starts, scheds, ticks, modelLoaded,
                   startSinceStop, firedAfterStop>>
    /\ UNCHANGED hubVars

\* startBot, line 571: startTradingBot(userId), not awaited
StartBotStart(i) ==
    /\ reqs[i].kind = "startBot" /\ reqs[i].pc = "start"
    /\ reqs' = [reqs EXCEPT ![i].pc = "done"]
    /\ InvokeStart
    /\ UNCHANGED <<storeVars, marketDataCache, scheds, ticks, modelLoaded,
                   firedAfterStop>>
    /\ UNCHANGED hubVars

\* stopBot, line 577: storage.updateBotSettings(id, {isActive: false})
StopBotUpdate(i) ==
    /\ reqs[i].kind = "stopBot" /\ reqs[i].pc = "update"
    /\ botSettings' = updateBotSettings([isActive |-> FALSE])
    /\ reqs' = [reqs EXCEPT ![i].pc = "stop"]
    /\ UNCHANGED <<apiKey, positions, nextPosId, trades, logs, metrics, activeBots, timers,
                   marketDataCache, starts, scheds, ticks, modelLoaded,
                   startSinceStop, firedAfterStop>>
    /\ UNCHANGED hubVars

\* stopBot, lines 578-585: stopTradingBot(userId), then the INFO log
StopBotStop(i) ==
    /\ reqs[i].kind = "stopBot" /\ reqs[i].pc = "stop"
    /\ reqs' = [reqs EXCEPT ![i].pc = "status"]
    /\ InvokeStop
    /\ logs' = createSystemLog("INFO")
    /\ UNCHANGED <<apiKey, botSettings, positions, nextPosId, trades, metrics,
                   marketDataCache, scheds, ticks, modelLoaded, firedAfterStop>>
    /\ UNCHANGED hubVars

\* POST /api/bot-settings, line 773: storage.updateBotSettings(id, validatedData)
PostUpdate(i) ==
    /\ reqs[i].kind = "post" /\ reqs[i].pc = "update"
    /\ botSettings' = updateBotSettings(reqs[i].body)
    /\ reqs' = [reqs EXCEPT ![i].pc = "apply"]
    /\ UNCHANGED <<apiKey, positions, nextPosId, trades, logs, metrics, activeBots, timers,
                   marketDataCache, starts, scheds, ticks, modelLoaded,
                   startSinceStop, firedAfterStop>>
    /\ UNCHANGED hubVars

\* POST /api/bot-settings, lines 779-789: start or stop, then the INFO log
PostApply(i) ==
    /\ reqs[i].kind = "post" /\ reqs[i].pc = "apply"
    /\ reqs' = [reqs EXCEPT ![i].pc = "status"]
    /\ IF reqs[i].body.isActive THEN InvokeStart ELSE InvokeStop
    /\ logs' = createSystemLog("INFO")
    /\ UNCHANGED <<apiKey, botSettings, positions, nextPosId, trades, metrics,
                   marketDataCache, scheds, ticks, modelLoaded, firedAfterStop>>
    /\ UNCHANGED hubVars

\* stopBot 587-591 (botStatus) and POST 791-797 (botSettingsUpdate, reply)
ReqStatus(i) ==
    /\ reqs[i].pc = "status"
    /\ reqs' = [reqs EXCEPT ![i].pc = "done"]
    /\ UNCHANGED <<storeVars, activeBots, timers, marketDataCache, starts, scheds,
                   ticks, modelLoaded, startSinceStop, firedAfterStop>>
    /\ broadcastToUser(User, IF reqs[i].kind = "post" THEN "botSettingsUpdate"
                                                       ELSE "botStatus")

\* the connection goes down: readyState leaves OPEN, the close event is due
WsDrop(c) ==
    /\ sockets[c].readyState = "OPEN"
    /\ sockets' = [sockets EXCEPT ![c].readyState = "CLOSED",
                                    ![c].closeEvent = "pending"]
    /\ UNCHANGED <<storeVars, activeBots, timers, marketDataCache, reqs, starts,
                   scheds, ticks, modelLoaded, startSinceStop, firedAfterStop,
                   activeConnections, sent,
                   mockTimers, hook, rl, keyRow>>

\* mutant of WsClose: the entry of the user is kept when its list empties
WsClose_KeepEmpty(c) ==
    /\ sockets[c].closeEvent = "pending"
    /\ activeConnections' =
         LET u == sockets[c].userId
         IN IF u = NoUser \/ u \notin DOMAIN activeConnections
              THEN activeConnections
              ELSE [activeConnections EXCEPT ![u] = removeFirst(@, c)]
    /\ sockets' = [sockets EXCEPT ![c].closeEvent = "handled"]
    /\ UNCHANGED <<storeVars, activeBots, timers, marketDataCache, reqs, starts,
                   scheds, ticks, modelLoaded, startSinceStop, firedAfterStop, sent,
                   mockTimers, hook, rl, keyRow>>

\* lines 600-617: the close handler
WsClose(c) ==
    /\ sockets[c].closeEvent = "pending"
    /\ activeConnections' = unregister(sockets[c].userId, c)
    /\ sockets' = [sockets EXCEPT ![c].closeEvent = "handled"]
    /\ UNCHANGED <<storeVars, activeBots, timers, marketDataCache, reqs, starts,
                   scheds, ticks, modelLoaded, startSinceStop, firedAfterStop, sent,
                   mockTimers, hook, rl, keyRow>>

\* --------------------------------------------- storage: positions, metrics
NoPos == [id |-> 0]

getPositionsByUserId == positions

\* the first row among `rows` for that symbol, NoPos when there is none
FirstRow(rows, sym) ==
    LET match == {r \in rows : r.symbol = sym}
    IN IF match = {} THEN NoPos
       ELSE CHOOSE r \in match : \A o \in match : r.id <= o.id

getPositionBySymbol(sym) == FirstRow(positions, sym)

\* the row `id` with the fields of `patch` replaced (no row: no change)
updatePosition(id, patch) ==
    {IF r.id = id
       THEN [f \in DOMAIN r |-> IF f \in DOMAIN patch THEN patch[f] ELSE r[f]]
       ELSE r : r \in positions}

createPosition(data) ==
    positions \cup {[f \in DOMAIN data \cup {"id"} |->
                       IF f = "id" THEN nextPosId ELSE data[f]]}

\* ------------------------------------------------------------ the broker
\* What alpaca.getPositions may return: per symbol at most one position,
\* whose derived fields the venue computes from qty, entry and price.
\* unrealized_plpc is a fraction; it is carried here in hundredths.
BrokerPrices == {100}
BrokerEntries == {100}

BrokerPosition(sym, q, e, p) ==
    [symbol |-> sym, qty |-> q, avg_entry_price |-> e, current_price |-> p,
     market_value |-> q * p, unrealized_pl |-> q * (p - e),
     unrealized_plpc |-> ((p - e) * 100) \div e]

BrokerRows(sym) ==
    {BrokerPosition(sym, q, e, p) : q \in Quantities, e \in BrokerEntries,
                                    p \in BrokerPrices}

BrokerSnapshots ==
    {<<>>} \cup {<<r>> : r \in BrokerRows("BTCUSD") \cup BrokerRows("ETHUSD")}
           \cup {<<r1, r2>> : r1 \in BrokerRows("BTCUSD"), r2 \in BrokerRows("ETHUSD")}

\* ------------------------------------- the interval callback (357-440)
\* lines 400-409: the row written for a broker position
positionData(pos) ==
    [symbol |-> pos.symbol, qty |-> pos.qty, entryPrice |-> pos.avg_entry_price,
     currentPrice |-> pos.current_price, marketValue |-> pos.market_value,
     unrealizedPl |-> pos.unrealized_pl,
     unrealizedPlPerc |-> (pos.unrealized_plpc * 100) \div 100]

\* A live interval fires: the callback starts and calls alpaca.getAccount.
SchedFire(t) ==
    /\ t \in LiveTimers
    /\ scheds' = Append(scheds, [timer |-> t, pc |-> "account", hadMetrics |-> FALSE,
                                 bpos |-> <<>>, i |-> 0, existing |-> 0])
    /\ firedAfterStop' = (firedAfterStop \/ ~startSinceStop)
    /\ UNCHANGED <<storeVars, activeBots, timers, marketDataCache, reqs, starts,
                   ticks, modelLoaded, startSinceStop>>
    /\ UNCHANGED hubVars

\* mutant of SchedAccount: the catch block also clears the interval
SchedAccount_ClearsInterval(i) ==
    /\ scheds[i].pc = "account"
    /\ \/ /\ scheds' = [scheds EXCEPT ![i].pc = "metrics", ![i].hadMetrics = metrics]
          /\ UNCHANGED <<logs, timers>>
       \/ /\ scheds' = [scheds EXCEPT ![i].pc = "caught"]
          /\ logs' = createSystemLog("ERROR")
          /\ timers' = [timers EXCEPT ![scheds[i].timer].live = FALSE]
    /\ UNCHANGED <<apiKey, botSettings, positions, nextPosId, trades, metrics,
                   activeBots, marketDataCache, reqs, starts, ticks,
                   modelLoaded, startSinceStop, firedAfterStop>>
    /\ UNCHANGED hubVars

\* lines 367-370: getAccount resolved; on success the metrics row is read,
\* on failure the catch block (430-438) logs an ERROR
SchedAccount(i) ==
    /\ scheds[i].pc = "account"
    /\ \/ /\ scheds' = [scheds EXCEPT ![i].pc = "metrics", ![i].hadMetrics = metrics]
          /\ UNCHANGED logs
       \/ /\ scheds' = [scheds EXCEPT ![i].pc = "caught"]
          /\ logs' = createSystemLog("ERROR")
    /\ UNCHANGED <<apiKey, botSettings, positions, nextPosId, trades, metrics,
                   activeBots, timers, marketDataCache, reqs, starts, ticks,
                   modelLoaded, startSinceStop, firedAfterStop>>
    /\ UNCHANGED hubVars

\* lines 372-391: updatePerformanceMetrics or createPerformanceMetrics
SchedMetrics(i) ==
    /\ scheds[i].pc = "metrics"
    /\ metrics' = TRUE
    /\ scheds' = [scheds EXCEPT ![i].pc = "positions"]
    /\ UNCHANGED <<apiKey, botSettings, positions, nextPosId, trades, logs,
                   activeBots, timers, marketDataCache, reqs, starts, ticks,
                   modelLoaded, startSinceStop, firedAfterStop>>
    /\ UNCHANGED hubVars

\* what the loop (397-416) and the reads after it (419-420) do next: look up
\* the row of broker position k, or read the rows back for the broadcast
SchedLookup(c, k) ==
    IF k <= Len(c.bpos)
      THEN [c EXCEPT !.pc = "upsert", !.i = k,
                     !.existing = getPositionBySymbol(c.bpos[k].symbol).id]
      ELSE [c EXCEPT !.pc = "broadcast", !.i = k]

\* line 394: getPositions resolved (or failed into the catch block)
SchedPositions(i) ==
    /\ scheds[i].pc = "positions"
    /\ \/ /\ \E snap \in BrokerSnapshots :
                scheds' = [scheds EXCEPT ![i] = SchedLookup([@ EXCEPT !.bpos = snap], 1)]
          /\ UNCHANGED logs
       \/ /\ scheds' = [scheds EXCEPT ![i].pc = "caught"]
          /\ logs' = createSystemLog("ERROR")
    /\ UNCHANGED <<apiKey, botSettings, positions, nextPosId, trades, metrics,
                   activeBots, timers, marketDataCache, reqs, starts, ticks,
                   modelLoaded, startSinceStop, firedAfterStop>>
    /\ UNCHANGED hubVars

\* lines 411-415: updatePosition on the row found, else createPosition
SchedUpsert(i) ==
    /\ scheds[i].pc = "upsert"
    /\ LET c == scheds[i]
           data == positionData(c.bpos[c.i])
       IN IF c.existing # 0
            THEN /\ positions' = updatePosition(c.existing, data)
                 /\ UNCHANGED nextPosId
            ELSE /\ positions' = createPosition(data)
                 /\ nextPosId' = nextPosId + 1
    /\ scheds' = [scheds EXCEPT ![i].pc = "next"]
    /\ UNCHANGED <<apiKey, botSettings, trades, logs, metrics, activeBots, timers,
                   marketDataCache, reqs, starts, ticks, modelLoaded,
                   startSinceStop, firedAfterStop>>
    /\ UNCHANGED hubVars

\* the write of 412/414 returned: next iteration of the loop
SchedNext(i) ==
    /\ scheds[i].pc = "next"
    /\ scheds' = [scheds EXCEPT ![i] = SchedLookup(@, @.i + 1)]
    /\ UNCHANGED <<storeVars, activeBots, timers, marketDataCache, reqs, starts,
                   ticks, modelLoaded, startSinceStop, firedAfterStop>>
    /\ UNCHANGED hubVars

\* lines 422-429: accountUpdate is broadcast; or the catch block's log returned
SchedEnd(i) ==
    /\ scheds[i].pc \in {"broadcast", "caught"}
    /\ scheds' = [scheds EXCEPT ![i].pc =
                     IF @ = "broadcast" THEN "done" ELSE "failed"]
    /\ UNCHANGED <<storeVars, activeBots, timers, marketDataCache, reqs, starts,
                   ticks, modelLoaded, startSinceStop, firedAfterStop>>
    /\ IF scheds[i].pc = "broadcast" THEN broadcastToUser(User, "accountUpdate")
                                     ELSE UNCHANGED hubVars

\* A read of the store awaited in the callback rejects: line 370
\* (getPerformanceMetricsByUserId), 398 (getPositionBySymbol) or 419
\* (getPositionsByUserId).  The catch block (430-438) logs an ERROR.
SchedStorageFails(i) ==
    /\ scheds[i].pc \in {"metrics", "upsert", "broadcast"}
    /\ scheds' = [scheds EXCEPT ![i].pc = "caught"]
    /\ logs' = createSystemLog("ERROR")
    /\ UNCHANGED <<apiKey, botSettings, positions, nextPosId, trades, metrics,
                   activeBots, timers, marketDataCache, reqs, starts, ticks,
                   modelLoaded, startSinceStop, firedAfterStop>>
    /\ UNCHANGED hubVars

\* A broker call (367, 394) rejects and the createSystemLog awaited in the
\* catch block (434) rejects as well: nothing is appended, and nothing
\* around the catch block takes the second rejection, so the promise of the
\* callback is rejected.
SchedLogFails(i) ==
    /\ scheds[i].pc \in {"account", "positions"}
    /\ scheds' = [scheds EXCEPT ![i].pc = "rejected"]
    /\ UNCHANGED <<storeVars, activeBots, timers, marketDataCache, reqs, starts,
                   ticks, modelLoaded, startSinceStop, firedAfterStop>>
    /\ UNCHANGED hubVars

\* --------------------------------- handleAlpacaWebsocketMessage (41-268)
NoSignal == [symbol |-> "", action |-> "none", confidence |-> 0]
NoOrder == [symbol |-> "", qty |-> 0, side |-> "none", type |-> "none"]
MinDataPoints == 30

\* strategies: analyze(symbol, recent, historical) of a rule-based strategy.
\* The strategy is a pluggable scorer; any action and confidence may come out.
analyze(sym) ==
    {[symbol |-> sym, action |-> a, confidence |-> c] :
        a \in Actions, c \in Confidences}

\* ---- reinforcementLearningStrategy.ts: the learned-model strategy
\* The action the network predicts for a symbol is a real in [-1, 1] (tanh,
\* dqnAgent.ts 185); actions and the confidences made of them are carried
\* here in tenths.
Tenths == 10
PredictionConfidenceThreshold == 3
HoldConfidence == 5
HistoricalDataLength == 100

\* what agent.predict (172) may do: throw, or return an action
Predictions ==
    {[threw |-> TRUE, action |-> 0]} \cup
    {[threw |-> FALSE, action |-> a] : a \in {-5, -2, 0, 2, 5}}

\* lines 212-239: actionToSignal
actionToSignal(action) ==
    LET signalAction == IF action > 0 THEN "buy"
                        ELSE IF action < 0 THEN "sell" ELSE "hold"
        confidence == IF action > 0 THEN action
                      ELSE IF action < 0 THEN 0 - action ELSE HoldConfidence
    IN [action |-> IF confidence < PredictionConfidenceThreshold
                     THEN "hold" ELSE signalAction,
        confidence |-> confidence]

\* mutant of generateSignalOn: only the requested symbol's stored points are
\* counted before predicting
generateSignalOn_OwnSymbol(loaded, dataLength, stored, sym, predicted) ==
    IF ~loaded \/ dataLength < MinDataPoints
      THEN [signal |-> [action |-> "hold", confidence |-> 0], marketData |-> stored]
      ELSE LET n == stored[sym] + 1
               md == [stored EXCEPT ![sym] = IF n > HistoricalDataLength
                                               THEN HistoricalDataLength ELSE n]
           IN [signal |->
                 IF md[sym] < MinDataPoints \/ predicted.threw
                   THEN [action |-> "hold", confidence |-> 0]
                   ELSE actionToSignal(predicted.action),
               marketData |-> md]

\* lines 151-204: generateSignal on a strategy whose modelLoaded is `loaded`
\* (agent and env are set by the constructor and loadModel) and that has
\* stored[s] points for each tracked symbol s, called with a window of
\* dataLength points, `predicted` being what agent.predict does.  The guard
\* of 153 returns hold/0; else the last point is stored (164, 126-141: push,
\* then cut to historicalDataLength); a tracked symbol with fewer than 30
\* points returns hold/0 (167-176); a throw inside the try is caught and
\* returns hold/0 (194-202); else the action is converted (183).
\* The result is the signal and the stored counts on return.
generateSignalOn(loaded, dataLength, stored, sym, predicted) ==
    IF ~loaded \/ dataLength < MinDataPoints
      THEN [signal |-> [action |-> "hold", confidence |-> 0], marketData |-> stored]
      ELSE LET n == stored[sym] + 1
               md == [stored EXCEPT ![sym] = IF n > HistoricalDataLength
                                               THEN HistoricalDataLength ELSE n]
           IN [signal |->
                 IF (\E s \in Symbols : md[s] < MinDataPoints) \/ predicted.threw
                   THEN [action |-> "hold", confidence |-> 0]
                   ELSE actionToSignal(predicted.action),
               marketData |-> md]

\* what the strategy may hold for a symbol when it is called
StoredCounts == {28, 29, 30}

\* mutant of generateSignal: the learned-model strategy scores like a
\* rule-based one, on any window and with confidences in percent
generateSignal_RuleBased(sym, dataLength) ==
    {[symbol |-> sym, action |-> a, confidence |-> c] :
        a \in Actions, c \in Confidences}

\* generateSignal as routes.ts calls it (147), on the singleton strategy
\* whatever it has stored and whatever the network predicts; the confidence
\* is put on the scale of the gate of line 182, where it is at most 1
generateSignal(sym, dataLength) ==
    {[symbol |-> sym, action |-> r.signal.action,
      confidence |-> r.signal.confidence \div Tenths] :
        r \in {generateSignalOn(modelLoaded, dataLength, st, sym, pr) :
                  st \in [Symbols -> StoredCounts], pr \in Predictions}}

\* a call of generateSignal on the strategy object
RlCall(sym, dataLength, predicted) ==
    /\ rl.calls < MaxCalls
    /\ LET r == generateSignalOn(modelLoaded, dataLength, rl.marketData, sym,
                                 predicted)
       IN rl' = [marketData |-> r.marketData,
                 calls |-> rl.calls + 1,
                 last |-> [symbol |-> sym, loaded |-> modelLoaded,
                           dataLength |-> dataLength, stored |-> r.marketData,
                           predicted |-> predicted, result |-> r.signal]]
    /\ UNCHANGED <<storeVars, activeBots, timers, marketDataCache, reqs, starts,
                   scheds, ticks, modelLoaded, startSinceStop, firedAfterStop,
                   activeConnections, sockets, sent, mockTimers, hook, keyRow>>

\* mutant of reconcile: the profit is taken against the entry price of one
\* unit instead of the cost of the whole position
reconcile_UnitCost(pos, p) ==
    [currentPrice |-> p,
     marketValue |-> pos.qty * p,
     unrealizedPl |-> pos.qty * p - pos.entryPrice,
     unrealizedPlPerc |-> ((p - pos.entryPrice) * 100) \div pos.entryPrice]

\* lines 76-81: the fields written for a tick of price p on position row pos
reconcile(pos, p) ==
    [currentPrice |-> p,
     marketValue |-> pos.qty * p,
     unrealizedPl |-> pos.qty * (p - pos.entryPrice),
     unrealizedPlPerc |-> ((p - pos.entryPrice) * 100) \div pos.entryPrice]

\* mutant of findPosition: the symbol is not compared
findPosition_AnySymbol(rows, sym) ==
    IF rows = {} THEN NoPos ELSE CHOOSE r \in rows : \A o \in rows : r.id <= o.id

\* line 72: positions.find(p => p.symbol === marketData.symbol)
findPosition(rows, sym) == FirstRow(rows, sym)

\* mutant of Admitted: the gate admits a confidence equal to the threshold
Admitted_AtThreshold(signal) ==
    signal.action # "hold" /\ signal.confidence >= ConfidenceGate

\* line 182: the admission rule
Admitted(signal) == signal.action # "hold" /\ signal.confidence > ConfidenceGate

\* Quantities of signalToOrder are kept in thousandths of a unit, the
\* increment to which it rounds (line 274).
Milli == 1000
NotSized == -1
NullOrder == 0
AccountValues == {0, 1000}

\* reinforcementLearningStrategy.ts signalToOrder (247-279): null for a hold
\* signal, without a broker client or without a positive latest price; the
\* quantity is accountValue * 0.1 * confidence / latestPrice, null when it is
\* below 0.001, else rounded down to three decimals.  The result is the
\* quantity in thousandths, NullOrder for null.
signalToOrder(signal, accountValue, latestPrice, hasClient) ==
    IF signal.action = "hold" \/ ~hasClient \/ latestPrice <= 0
      THEN NullOrder
      ELSE LET thousandths == (accountValue * signal.confidence * 100) \div latestPrice
           IN IF thousandths < 1 THEN NullOrder ELSE thousandths

\* mutant of orderRequests: the order is sized to nothing
orderRequests_NoQty(strategy, signal, sizing) ==
    {[symbol |-> signal.symbol, qty |-> 0, side |-> signal.action, type |-> "market"]}

\* lines 198-226: the order request.  The learned-model branch takes the
\* order sized by signalToOrder, or falls back to the default quantity when
\* signalToOrder returned null (208-216); the other strategies take the
\* default quantity.  The sized quantities of the accounts and prices drawn
\* are whole units.
orderRequests(strategy, signal, sizing) ==
    {[symbol |-> signal.symbol,
      qty |-> IF strategy = "reinforcement" /\ sizing # NullOrder
                THEN sizing \div Milli ELSE DefaultQty,
      side |-> signal.action, type |-> "market"]}

Did(t, e) == \E k \in DOMAIN t.events : t.events[k] = e
Count(t, e) == Cardinality({k \in DOMAIN t.events : t.events[k] = e})

\* line 44: the state of a handleAlpacaWebsocketMessage invocation at its
\* first await, storage.getApiKeyByUserId
NewTick(sym, p, valid) ==
    [pc |-> "parse", symbol |-> sym, price |-> p, valid |-> valid,
     key |-> getApiKeyByUserId, pos |-> NoPos, rowsBefore |-> {},
     updated |-> NoPos, hadMetrics |-> FALSE,
     settings |-> NoBody, signal |-> NoSignal, order |-> NoOrder,
     sizing |-> NotSized, window |-> 0,
     events |-> <<>>]

\* line 44: a message arrives; the handler calls storage.getApiKeyByUserId
TickArrive(sym, p, valid) ==
    /\ ticks' = Append(ticks, NewTick(sym, p, valid))
    /\ UNCHANGED <<storeVars, activeBots, timers, marketDataCache, reqs, starts,
                   scheds, modelLoaded, startSinceStop, firedAfterStop>>
    /\ UNCHANGED hubVars

\* lines 529-548: a mock-data interval of the user fires.  Without an entry
\* of the user in activeConnections it clears itself (530-533); otherwise it
\* calls handleAlpacaWebsocketMessage, not awaited, once per symbol in the
\* order of the list of line 525 (the symbols of the model), each with a
\* generated price and type 'mock', which parseAlpacaWebSocketMessage
\* always accepts
MockFire ==
    /\ mockTimers > 0
    /\ IF User \notin DOMAIN activeConnections
         THEN /\ mockTimers' = mockTimers - 1
              /\ UNCHANGED ticks
         ELSE /\ Len(ticks) + 2 <= MaxTicks
              /\ \E p1, p2 \in Prices :
                    ticks' = ticks \o <<NewTick("BTCUSD", p1, TRUE),
                                        NewTick("ETHUSD", p2, TRUE)>>
              /\ UNCHANGED mockTimers
    /\ UNCHANGED <<storeVars, activeBots, timers, marketDataCache, reqs, starts,
                   scheds, modelLoaded, startSinceStop, firedAfterStop,
                   activeConnections, sockets, sent, hook, rl, keyRow>>

TickParse(i) ==
    /\ ticks[i].pc = "parse"
    /\ IF ~ticks[i].valid
         THEN /\ ticks' = [ticks EXCEPT ![i].pc = "done"]
              /\ UNCHANGED marketDataCache
         ELSE /\ marketDataCache' =
                   [marketDataCache EXCEPT ![ticks[i].symbol] = ticks[i].price]
              /\ ticks' = [ticks EXCEPT
                   ![i].pc = "reconcile",
                   ![i].pos = findPosition(getPositionsByUserId, ticks[i].symbol),
                   ![i].rowsBefore = getPositionsByUserId,
                   ![i].events = @ \o <<"cache", "marketData">>]
    /\ UNCHANGED <<storeVars, activeBots, timers, reqs, starts, scheds,
                   modelLoaded, startSinceStop, firedAfterStop>>
    /\ IF ticks[i].valid THEN broadcastToUser(User, "marketData")
                         ELSE UNCHANGED hubVars

\* lines 74-81 and 125: updatePosition on the row found at 72; without a row,
\* straight to storage.getBotSettingsByUserId
TickReconcile(i) ==
    /\ ticks[i].pc = "reconcile"
    /\ LET t == ticks[i]
       IN IF t.pos # NoPos
            THEN /\ positions' = updatePosition(t.pos.id, reconcile(t.pos, t.price))
                 /\ ticks' = [ticks EXCEPT
                      ![i].pc = "updated",
                      ![i].updated = FirstRow({r \in positions' : r.id = t.pos.id},
                                              t.pos.symbol),
                      ![i].events = Append(@, "updatePosition")]
            ELSE /\ UNCHANGED positions
                 /\ ticks' = [ticks EXCEPT ![i].pc = "evaluate",
                                           ![i].settings = getBotSettingsByUserId]
    /\ UNCHANGED <<apiKey, botSettings, nextPosId, trades, logs, metrics,
                   activeBots, timers, marketDataCache, reqs, starts, scheds,
                   modelLoaded, startSinceStop, firedAfterStop>>
    /\ UNCHANGED hubVars

\* lines 84-91 and 125: positionUpdate broadcast; in test mode the metrics row
\* is read, otherwise the bot settings
TickUpdated(i) ==
    /\ ticks[i].pc = "updated"
    /\ ticks' = [ticks EXCEPT
         ![i].pc = IF IsTestMode(ticks[i].key) THEN "metrics" ELSE "evaluate",
         ![i].settings = IF IsTestMode(ticks[i].key) THEN @ ELSE getBotSettingsByUserId,
         ![i].hadMetrics = IF IsTestMode(ticks[i].key) THEN metrics ELSE @,
         ![i].events = Append(@, "positionUpdate")]
    /\ UNCHANGED <<storeVars, activeBots, timers, marketDataCache, reqs, starts,
                   scheds, modelLoaded, startSinceStop, firedAfterStop>>
    /\ broadcastToUser(User, "positionUpdate")

\* lines 92-113: with a metrics row (read at 91): updatePerformanceMetrics,
\* then the row is read back; without: line 125
TickMetrics(i) ==
    /\ ticks[i].pc = "metrics"
    /\ IF ticks[i].hadMetrics
         THEN ticks' = [ticks EXCEPT ![i].pc = "metricsSend",
                                     ![i].events = Append(@, "updateMetrics")]
         ELSE ticks' = [ticks EXCEPT ![i].pc = "evaluate",
                                     ![i].settings = getBotSettingsByUserId]
    /\ UNCHANGED <<storeVars, activeBots, timers, marketDataCache, reqs, starts,
                   scheds, modelLoaded, startSinceStop, firedAfterStop>>
    /\ UNCHANGED hubVars

\* lines 114-125: metricsUpdate broadcast, then getBotSettingsByUserId
TickMetricsSend(i) ==
    /\ ticks[i].pc = "metricsSend"
    /\ ticks' = [ticks EXCEPT ![i].pc = "evaluate",
                              ![i].settings = getBotSettingsByUserId,
                              ![i].events = Append(@, "metricsUpdate")]
    /\ UNCHANGED <<storeVars, activeBots, timers, marketDataCache, reqs, starts,
                   scheds, modelLoaded, startSinceStop, firedAfterStop>>
    /\ broadcastToUser(User, "metricsUpdate")

\* mutant of TickEvaluate: the strategy is evaluated whatever isActive says
TickEvaluate_Unconditional(i) ==
    /\ ticks[i].pc = "evaluate"
    /\ LET t == ticks[i]
       IN /\ \E sig \in IF t.settings.strategy = "reinforcement"
                           THEN generateSignal(t.symbol, 1)
                           ELSE analyze(t.symbol) :
                 ticks' = [ticks EXCEPT ![i].pc = "signal",
                                        ![i].signal = sig,
                                        ![i].events = Append(@, "signalLog")]
          /\ logs' = createSystemLog("SIGNAL")
    /\ UNCHANGED <<apiKey, botSettings, positions, nextPosId, trades, metrics,
                   activeBots, timers, marketDataCache, reqs, starts, scheds,
                   modelLoaded, startSinceStop, firedAfterStop>>
    /\ UNCHANGED hubVars

\* lines 128-173: if the bot is active, the historical window is taken from
\* the cache entry of the symbol as it is now (131-137), the strategy is
\* evaluated and the SIGNAL log is written
TickEvaluate(i) ==
    /\ ticks[i].pc = "evaluate"
    /\ LET t == ticks[i]
       IN IF ~t.settings.isActive
            THEN /\ ticks' = [ticks EXCEPT ![i].pc = "done"]
                 /\ UNCHANGED logs
            ELSE /\ \E sig \in IF t.settings.strategy = "reinforcement"
                                  THEN generateSignal(t.symbol, 1)
                                  ELSE analyze(t.symbol) :
                        ticks' = [ticks EXCEPT ![i].pc = "signal",
                                               ![i].signal = sig,
                                               ![i].window = marketDataCache[t.symbol],
                                               ![i].events = Append(@, "signalLog")]
                 /\ logs' = createSystemLog("SIGNAL")
    /\ UNCHANGED <<apiKey, botSettings, positions, nextPosId, trades, metrics,
                   activeBots, timers, marketDataCache, reqs, starts, scheds,
                   modelLoaded, startSinceStop, firedAfterStop>>
    /\ UNCHANGED hubVars

\* lines 176-184: strategySignal broadcast; past the gate the API key is read
TickSignal(i) ==
    /\ ticks[i].pc = "signal"
    /\ ticks' = [ticks EXCEPT
         ![i].pc = IF Admitted(ticks[i].signal) THEN "order" ELSE "done",
         ![i].key = IF Admitted(ticks[i].signal) THEN getApiKeyByUserId ELSE @,
         ![i].events = Append(@, "strategySignal")]
    /\ UNCHANGED <<storeVars, activeBots, timers, marketDataCache, reqs, starts,
                   scheds, modelLoaded, startSinceStop, firedAfterStop>>
    /\ broadcastToUser(User, "strategySignal")

\* A read of the store awaited in the outer try block rejects: line 44
\* (getApiKeyByUserId), 91 (getPerformanceMetricsByUserId), 125
\* (getBotSettingsByUserId) or 184 (getApiKeyByUserId).  The outer catch
\* (265-267) writes to the console and the invocation ends.
TickStorageFails(i) ==
    /\ ticks[i].pc \in {"parse", "metrics", "evaluate", "order"}
    /\ ticks' = [ticks EXCEPT
         ![i].pc = "done",
         ![i].events = Append(@, IF ticks[i].pc = "parse" THEN "keyFailed"
                                                          ELSE "storageFailed")]
    /\ UNCHANGED <<storeVars, activeBots, timers, marketDataCache, reqs, starts,
                   scheds, modelLoaded, startSinceStop, firedAfterStop>>
    /\ UNCHANGED hubVars

\* mutant of TickReconcileFails: the failure is swallowed where it happens
\* and the handler goes on to line 125
TickReconcileFails_GoesOn(i) ==
    /\ ticks[i].pc = "reconcile"
    /\ ticks' = [ticks EXCEPT ![i].pc = "evaluate",
                              ![i].settings = getBotSettingsByUserId,
                              ![i].events = Append(@, "reconcileFailed")]
    /\ UNCHANGED <<storeVars, activeBots, timers, marketDataCache, reqs, starts,
                   scheds, modelLoaded, startSinceStop, firedAfterStop>>
    /\ UNCHANGED hubVars

\* The persistence call of the reconciliation step rejects: the read of
\* line 71, or the updatePosition of line 76 on the row found (nothing is
\* written).  The outer catch (265-267) writes to the console and the
\* invocation ends; its promise is fulfilled.
TickReconcileFails(i) ==
    /\ ticks[i].pc = "reconcile"
    /\ ticks' = [ticks EXCEPT ![i].pc = "done",
                              ![i].events = Append(@, "reconcileFailed")]
    /\ UNCHANGED <<storeVars, activeBots, timers, marketDataCache, reqs, starts,
                   scheds, modelLoaded, startSinceStop, firedAfterStop>>
    /\ UNCHANGED hubVars

\* lines 229-260: submitOrder is acknowledged and the createSystemLog of line
\* 232 rejects.  The inner catch takes the rejection, writes an ERROR log and
\* the handler ends: createTrade (239) and the orderUpdate broadcast (250)
\* are skipped.
TickTradeLogFails(i) ==
    /\ ticks[i].pc = "submit"
    /\ ticks' = [ticks EXCEPT ![i].pc = "caught",
                              ![i].events = @ \o <<"tradeLogFailed", "errorLog">>]
    /\ logs' = createSystemLog("ERROR")
    /\ UNCHANGED <<apiKey, botSettings, positions, nextPosId, trades, metrics,
                   activeBots, timers, marketDataCache, reqs, starts, scheds,
                   modelLoaded, startSinceStop, firedAfterStop>>
    /\ UNCHANGED hubVars

\* lines 186-194: with an API key, alpaca.getAccount is called
TickOrder(i) ==
    /\ ticks[i].pc = "order"
    /\ ticks' = [ticks EXCEPT
         ![i].pc = IF ticks[i].key # "none" THEN "account" ELSE "done"]
    /\ UNCHANGED <<storeVars, activeBots, timers, marketDataCache, reqs, starts,
                   scheds, modelLoaded, startSinceStop, firedAfterStop>>
    /\ UNCHANGED hubVars

\* lines 194-229: getAccount resolved with some account value.  On success
\* the order request is built (the learned-model strategy asks signalToOrder,
\* whose broker client may or may not have been set by line 299) and
\* submitOrder is called; a failure lands in the outer catch (265-267),
\* which writes to the console only.
TickAccount(i) ==
    /\ ticks[i].pc = "account"
    /\ \/ \E av \in AccountValues, hasClient \in BOOLEAN :
            LET t == ticks[i]
                sizing == IF t.settings.strategy = "reinforcement"
                            THEN signalToOrder(t.signal, av, t.price, hasClient)
                            ELSE NotSized
            IN \E req \in orderRequests(t.settings.strategy, t.signal, sizing) :
                 ticks' = [ticks EXCEPT ![i].pc = "submit", ![i].order = req,
                                        ![i].sizing = sizing,
                                        ![i].events = Append(@, "submitOrder")]
       \/ ticks' = [ticks EXCEPT ![i].pc = "done",
                                 ![i].events = Append(@, "accountFailed")]
    /\ UNCHANGED <<storeVars, activeBots, timers, marketDataCache, reqs, starts,
                   scheds, modelLoaded, startSinceStop, firedAfterStop>>
    /\ UNCHANGED hubVars

\* mutant of TickSubmit: no inner try/catch, a rejection falls to the outer
\* catch, which logs to the console only
TickSubmit_NoCatch(i) ==
    /\ ticks[i].pc = "submit"
    /\ \/ /\ ticks' = [ticks EXCEPT ![i].pc = "trade",
                                      ![i].events = Append(@, "tradeLog")]
          /\ logs' = createSystemLog("TRADE")
       \/ /\ ticks' = [ticks EXCEPT ![i].pc = "done",
                                      ![i].events = Append(@, "submitFailed")]
          /\ UNCHANGED logs
    /\ UNCHANGED <<apiKey, botSettings, positions, nextPosId, trades, metrics,
                   activeBots, timers, marketDataCache, reqs, starts, scheds,
                   modelLoaded, startSinceStop, firedAfterStop>>
    /\ UNCHANGED hubVars

\* mutant of TickSubmit: a rejected order is submitted once more
TickSubmit_Retry(i) ==
    /\ ticks[i].pc = "submit"
    /\ \/ /\ ticks' = [ticks EXCEPT ![i].pc = "trade",
                                      ![i].events = Append(@, "tradeLog")]
          /\ logs' = createSystemLog("TRADE")
       \/ /\ Count(ticks[i], "submitOrder") < 2
          /\ ticks' = [ticks EXCEPT ![i].events = @ \o <<"submitFailed", "submitOrder">>]
          /\ UNCHANGED logs
       \/ /\ Count(ticks[i], "submitOrder") >= 2
          /\ ticks' = [ticks EXCEPT ![i].pc = "caught",
                                      ![i].events = @ \o <<"submitFailed", "errorLog">>]
          /\ logs' = createSystemLog("ERROR")
    /\ UNCHANGED <<apiKey, botSettings, positions, nextPosId, trades, metrics,
                   activeBots, timers, marketDataCache, reqs, starts, scheds,
                   modelLoaded, startSinceStop, firedAfterStop>>
    /\ UNCHANGED hubVars

\* lines 229-260: submitOrder resolved: the TRADE log on success, the ERROR
\* log of the catch block on failure
TickSubmit(i) ==
    /\ ticks[i].pc = "submit"
    /\ \/ /\ ticks' = [ticks EXCEPT ![i].pc = "trade",
                                      ![i].events = Append(@, "tradeLog")]
          /\ logs' = createSystemLog("TRADE")
       \/ /\ ticks' = [ticks EXCEPT ![i].pc = "caught",
                                      ![i].events = @ \o <<"submitFailed", "errorLog">>]
          /\ logs' = createSystemLog("ERROR")
    /\ UNCHANGED <<apiKey, botSettings, positions, nextPosId, trades, metrics,
                   activeBots, timers, marketDataCache, reqs, starts, scheds,
                   modelLoaded, startSinceStop, firedAfterStop>>
    /\ UNCHANGED hubVars

\* lines 239-247: storage.createTrade from the acknowledged order
TickTrade(i) ==
    /\ ticks[i].pc = "trade"
    /\ trades' = Append(trades, [symbol |-> ticks[i].order.symbol,
                                 side |-> ticks[i].order.side,
                                 qty |-> ticks[i].order.qty,
                                 orderType |-> ticks[i].order.type])
    /\ ticks' = [ticks EXCEPT ![i].pc = "orderUpdate",
                              ![i].events = Append(@, "createTrade")]
    /\ UNCHANGED <<apiKey, botSettings, positions, nextPosId, logs, metrics,
                   activeBots, timers, marketDataCache, reqs, starts, scheds,
                   modelLoaded, startSinceStop, firedAfterStop>>
    /\ UNCHANGED hubVars

\* lines 250-253: orderUpdate broadcast; or the catch block's log returned
TickEnd(i) ==
    /\ ticks[i].pc \in {"orderUpdate", "caught"}
    /\ ticks' = [ticks EXCEPT
         ![i].pc = "done",
         ![i].events = IF ticks[i].pc = "orderUpdate" THEN Append(@, "orderUpdate")
                                                     ELSE @]
    /\ UNCHANGED <<storeVars, activeBots, timers, marketDataCache, reqs, starts,
                   scheds, modelLoaded, startSinceStop, firedAfterStop>>
    /\ IF ticks[i].pc = "orderUpdate" THEN broadcastToUser(User, "orderUpdate")
                                       ELSE UNCHANGED hubVars

\* ------------------------------------------------------------------ Next
ReqStep(i) ==
    \/ AuthReadSettings(i) \/ AuthReadKey(i) \/ AuthInitialData(i) \/ AuthStart(i)
    \/ StartBotUpdate(i) \/ StartBotStart(i)
    \/ StopBotUpdate(i) \/ StopBotStop(i)
    \/ PostUpdate(i) \/ PostApply(i)
    \/ ReqStatus(i)

StartStep(i) ==
    \/ StartReadSettings(i) \/ StartCheck(i) \/ StartRlLoaded(i)
    \/ StartLog(i) \/ StartArm(i)

SchedStep(i) ==
    \/ SchedAccount(i) \/ SchedMetrics(i) \/ SchedPositions(i)
    \/ SchedUpsert(i) \/ SchedNext(i) \/ SchedEnd(i)

\* The bot lifecycle: requests, startTradingBot, and the intervals firing.
Next ==
    \/ \E kind \in ReqKinds \ {"post"} : ReqArrive(kind, NoBody, "c1", User)
    \/ \E body \in SettingsRows : ReqArrive("post", body, NoConn, User)
    \/ \E i \in DOMAIN reqs : ReqStep(i)
    \/ \E i \in DOMAIN starts : StartStep(i)
    \/ /\ Len(scheds) < MaxFires
       /\ \E t \in DOMAIN timers : SchedFire(t)

Spec == Init /\ [][Next]_vars

\* The tick pipeline.  The store is persistent, so the process may start on
\* rows written earlier: a position, a metrics row.
InitTick ==
    /\ apiKey \in KeyKinds
    /\ botSettings \in {r \in SettingsRows : r.tradingFrequency = "medium"}
    /\ \/ positions = {} /\ nextPosId = 1
       \/ positions = {PositionRow(1, "BTCUSD", 1, 100, 100)} /\ nextPosId = 2
    /\ trades = <<>>
    /\ logs = <<>>
    /\ metrics \in BOOLEAN
    /\ activeBots = NoTimer
    /\ timers = <<>>
    /\ marketDataCache = [s \in Symbols |-> 0]
    /\ reqs = <<>>
    /\ starts = <<>>
    /\ scheds = <<>>
    /\ ticks = <<>>
    /\ modelLoaded \in IF botSettings.strategy = "reinforcement" THEN BOOLEAN
                                                                  ELSE {FALSE}
    /\ startSinceStop = TRUE
    /\ firedAfterStop = FALSE
    /\ NoHub

TickStep(i) ==
    \/ TickParse(i) \/ TickReconcile(i) \/ TickUpdated(i) \/ TickMetrics(i)
    \/ TickMetricsSend(i) \/ TickEvaluate(i) \/ TickSignal(i) \/ TickOrder(i)
    \/ TickAccount(i) \/ TickSubmit(i) \/ TickTrade(i) \/ TickEnd(i)

NextTick ==
    \/ /\ Len(ticks) < MaxTicks
       /\ \E sym \in Symbols, p \in Prices, valid \in BOOLEAN : TickArrive(sym, p, valid)
    \/ \E i \in DOMAIN ticks : TickStep(i)

SpecTick == InitTick /\ [][NextTick]_vars

\* The tick pipeline on a store whose calls may reject.
NextFail ==
    \/ NextTick
    \/ \E i \in DOMAIN ticks : TickStorageFails(i)
    \/ \E i \in DOMAIN ticks : TickReconcileFails(i)
    \/ \E i \in DOMAIN ticks : TickTradeLogFails(i)

SpecFail == InitTick /\ [][NextFail]_vars

\* A stream of BTCUSD ticks on a stored BTCUSD position, bot inactive: the
\* reconciliation step alone.
InitRecon ==
    /\ apiKey \in KeyKinds
    /\ botSettings = NoBody
    /\ positions \in {{PositionRow(1, "BTCUSD", q, e, 100)} :
                         q \in Quantities, e \in EntryPrices}
    /\ nextPosId = 2
    /\ trades = <<>>
    /\ logs = <<>>
    /\ metrics \in BOOLEAN
    /\ activeBots = NoTimer
    /\ timers = <<>>
    /\ marketDataCache = [s \in Symbols |-> 0]
    /\ reqs = <<>>
    /\ starts = <<>>
    /\ scheds = <<>>
    /\ ticks = <<>>
    /\ modelLoaded = FALSE
    /\ startSinceStop = TRUE
    /\ firedAfterStop = FALSE
    /\ NoHub

NextRecon ==
    \/ /\ Len(ticks) < MaxStream
       /\ \E p \in Prices : TickArrive("BTCUSD", p, TRUE)
    \/ \E i \in DOMAIN ticks :
         \/ TickParse(i) \/ TickReconcile(i) \/ TickUpdated(i)
         \/ TickMetrics(i) \/ TickMetricsSend(i) \/ TickEvaluate(i)

SpecRecon == InitRecon /\ [][NextRecon]_vars

\* Ticks against the scheduler.  The start is the state in which a POST
\* /api/bot-settings with isActive has been handled to completion for a
\* user with an API key (see RunningReached): the settings are active, one
\* interval is live and recorded.  No dashboard is connected here.
\* The store may hold a BTCUSD position from before.
Running(key, settings) ==
    /\ apiKey = key
    /\ botSettings = settings
    /\ reqs = <<[kind |-> "post", pc |-> "done", body |-> settings, key |-> "none",
                 conn |-> NoConn, user |-> User]>>
    /\ starts = <<[pc |-> "done", apiKey |-> key, settings |-> settings,
                   cleared |-> NoTimer, alone |-> 1]>>
    /\ timers = <<[live |-> TRUE, period |-> updateInterval(settings.tradingFrequency)]>>
    /\ activeBots = 1
    /\ logs = <<"INFO", "INFO">>
    /\ startSinceStop = TRUE
    /\ firedAfterStop = FALSE

InitUpsert ==
    /\ \E key \in KeyKinds \ {"none"} :
         Running(key, [isActive |-> TRUE, strategy |-> "momentum",
                       tradingFrequency |-> "medium"])
    /\ \/ positions = {} /\ nextPosId = 1
       \/ positions = {PositionRow(1, "BTCUSD", 1, 100, 100)} /\ nextPosId = 2
    /\ trades = <<>>
    /\ metrics \in BOOLEAN
    /\ marketDataCache = [s \in Symbols |-> 0]
    /\ scheds = <<>>
    /\ ticks = <<>>
    /\ modelLoaded = FALSE
    /\ NoHub

\* The interval's period (10 s at least, lines 342-354) is long against one
\* run of its callback, so here a callback starts once the previous one has
\* run to its end; ticks arrive at any moment.
NextUpsert ==
    \/ /\ Len(scheds) < MaxFires
       /\ \A k \in DOMAIN scheds : scheds[k].pc \in {"done", "failed"}
       /\ \E t \in DOMAIN timers : SchedFire(t)
    \/ \E i \in DOMAIN scheds : SchedStep(i)
    \/ /\ Len(ticks) < MaxUpsertTicks
       /\ \E sym \in Symbols, p \in Prices : TickArrive(sym, p, TRUE)
    \/ \E i \in DOMAIN ticks : TickStep(i)

SpecUpsert == InitUpsert /\ [][NextUpsert]_vars

\* The interval callbacks alone, on a running bot: setInterval does not wait
\* for the previous callback, so two may be in flight; broker and store
\* calls may reject.
NextSched ==
    \/ /\ Len(scheds) < MaxFires
       /\ \E t \in DOMAIN timers : SchedFire(t)
    \/ \E i \in DOMAIN scheds : SchedStep(i)
    \/ \E i \in DOMAIN scheds : SchedStorageFails(i)
    \/ \E i \in DOMAIN scheds : SchedLogFails(i)

SpecSched == InitUpsert /\ [][NextSched]_vars

\* The connections.  Two sockets have been accepted; each may authenticate,
\* as either user and more than once, go down, and have its close handler
\* run, while ticks of the user are handled.  The user has a test API key
\* (the mode in which routes.ts feeds handleAlpacaWebsocketMessage) and an
\* inactive bot.
HubPrices == {100}

InitHub ==
    /\ apiKey = "test"
    /\ botSettings = NoBody
    /\ positions = {}
    /\ nextPosId = 1
    /\ trades = <<>>
    /\ logs = <<>>
    /\ metrics = FALSE
    /\ activeBots = NoTimer
    /\ timers = <<>>
    /\ marketDataCache = [s \in Symbols |-> 0]
    /\ reqs = <<>>
    /\ starts = <<>>
    /\ scheds = <<>>
    /\ ticks = <<>>
    /\ modelLoaded = FALSE
    /\ startSinceStop = TRUE
    /\ firedAfterStop = FALSE
    /\ NoHub

NextHub ==
    \/ \E c \in Conns, u \in Users : ReqArrive("auth", NoBody, c, u)
    \/ \E i \in DOMAIN reqs : ReqStep(i)
    \/ \E c \in Conns : WsDrop(c)
    \/ \E c \in Conns : WsClose(c)
    \/ /\ Len(ticks) < MaxTicks
       /\ \E p \in HubPrices : TickArrive("BTCUSD", p, TRUE)
    \/ \E i \in DOMAIN ticks : TickStep(i)

SpecHub == InitHub /\ [][NextHub]_vars

\* The mock market data of a test-mode user: auth messages, closing
\* connections, the mock-data intervals and the tick handlers they start.
NextMock ==
    \/ \E c \in Conns, u \in Users : ReqArrive("auth", NoBody, c, u)
    \/ \E i \in DOMAIN reqs : ReqStep(i)
    \/ \E c \in Conns : WsDrop(c)
    \/ \E c \in Conns : WsClose(c)
    \/ MockFire
    \/ \E i \in DOMAIN ticks : TickStep(i)

SpecMock == InitHub /\ [][NextMock]_vars

\* ------------------------------- POST /api/positions/close (929-983)
\* storage.deletePosition: the row of that id is removed
deletePosition(id) == {r \in positions : r.id # id}

\* lines 931-937: a request with a valid body arrives; the handler calls
\* storage.getApiKeyByUserId.  status is the HTTP status of the reply (0: no
\* reply yet), pos the row read at line 965, events what the request has
\* written, deleted and broadcast so far.
CloseArrive(sym) ==
    /\ Len(reqs) < MaxReqs
    /\ reqs' = Append(reqs,
          [kind |-> "close", pc |-> "key", body |-> NoBody,
           key |-> getApiKeyByUserId, conn |-> NoConn, user |-> User,
           symbol |-> sym, pos |-> NoPos, status |-> 0, events |-> <<>>])
    /\ UNCHANGED <<storeVars, activeBots, timers, marketDataCache, starts, scheds,
                   ticks, modelLoaded, startSinceStop, firedAfterStop>>
    /\ UNCHANGED hubVars

\* mutant of CloseStep: a failed closePosition is swallowed and the handler
\* goes on to remove the stored position
CloseStep_IgnoresFailure(i) ==
    /\ reqs[i].kind = "close"
    /\ UNCHANGED <<apiKey, botSettings, nextPosId, trades, metrics, activeBots,
                   timers, marketDataCache, starts, scheds, ticks, modelLoaded,
                   startSinceStop, firedAfterStop>>
    /\ \/ /\ reqs[i].pc = "key" /\ reqs[i].key = "none"
          /\ reqs' = [reqs EXCEPT ![i].pc = "done", ![i].status = 400]
          /\ UNCHANGED <<positions, logs>>
          /\ UNCHANGED hubVars
       \/ /\ reqs[i].pc = "key" /\ reqs[i].key # "none"
          /\ reqs' = [reqs EXCEPT ![i].pc = "broker"]
          /\ UNCHANGED <<positions, logs>>
          /\ UNCHANGED hubVars
       \/ /\ reqs[i].pc = "broker"
          /\ \/ /\ logs' = createSystemLog("TRADE")
                /\ reqs' = [reqs EXCEPT ![i].pc = "log",
                                          ![i].events = Append(@, "TRADE")]
             \/ /\ reqs' = [reqs EXCEPT ![i].pc = "read", ![i].status = 500,
                                          ![i].pos = getPositionBySymbol(reqs[i].symbol)]
                /\ UNCHANGED logs
          /\ UNCHANGED positions
          /\ UNCHANGED hubVars
       \/ /\ reqs[i].pc = "log"
          /\ reqs' = [reqs EXCEPT ![i].pc = "read",
                                    ![i].pos = getPositionBySymbol(reqs[i].symbol)]
          /\ UNCHANGED <<positions, logs>>
          /\ UNCHANGED hubVars
       \/ /\ reqs[i].pc = "read" /\ reqs[i].pos # NoPos
          /\ positions' = deletePosition(reqs[i].pos.id)
          /\ reqs' = [reqs EXCEPT ![i].pc = "delete",
                                    ![i].events = Append(@, "deleted")]
          /\ UNCHANGED logs
          /\ UNCHANGED hubVars
       \/ /\ \/ reqs[i].pc = "read" /\ reqs[i].pos = NoPos
             \/ reqs[i].pc = "delete"
          /\ broadcastToUser(User, "positionClosed")
          /\ reqs' = [reqs EXCEPT ![i].pc = "done", ![i].status = 200,
                                    ![i].events = Append(@, "positionClosed")]
          /\ UNCHANGED <<positions, logs>>

\* lines 939-982, one disjunct per await:
\*   939-955 the key read returned: 400 without a key, else closePosition
\*   955-962 closePosition resolved: the TRADE log is written; rejected:
\*           the catch of 979 replies 500
\*   965     the log returned: storage.getPositionBySymbol
\*   967-969 the read returned a row: storage.deletePosition(position.id)
\*   972-978 positionClosed is broadcast and the broker's result returned
CloseStep(i) ==
    /\ reqs[i].kind = "close"
    /\ UNCHANGED <<apiKey, botSettings, nextPosId, trades, metrics, activeBots,
                   timers, marketDataCache, starts, scheds, ticks, modelLoaded,
                   startSinceStop, firedAfterStop>>
    /\ \/ /\ reqs[i].pc = "key" /\ reqs[i].key = "none"
          /\ reqs' = [reqs EXCEPT ![i].pc = "done", ![i].status = 400]
          /\ UNCHANGED <<positions, logs>>
          /\ UNCHANGED hubVars
       \/ /\ reqs[i].pc = "key" /\ reqs[i].key # "none"
          /\ reqs' = [reqs EXCEPT ![i].pc = "broker"]
          /\ UNCHANGED <<positions, logs>>
          /\ UNCHANGED hubVars
       \/ /\ reqs[i].pc = "broker"
          /\ \/ /\ logs' = createSystemLog("TRADE")
                /\ reqs' = [reqs EXCEPT ![i].pc = "log",
                                          ![i].events = Append(@, "TRADE")]
             \/ /\ reqs' = [reqs EXCEPT ![i].pc = "done", ![i].status = 500]
                /\ UNCHANGED logs
          /\ UNCHANGED positions
          /\ UNCHANGED hubVars
       \/ /\ reqs[i].pc = "log"
          /\ reqs' = [reqs EXCEPT ![i].pc = "read",
                                    ![i].pos = getPositionBySymbol(reqs[i].symbol)]
          /\ UNCHANGED <<positions, logs>>
          /\ UNCHANGED hubVars
       \/ /\ reqs[i].pc = "read" /\ reqs[i].pos # NoPos
          /\ positions' = deletePosition(reqs[i].pos.id)
          /\ reqs' = [reqs EXCEPT ![i].pc = "delete",
                                    ![i].events = Append(@, "deleted")]
          /\ UNCHANGED logs
          /\ UNCHANGED hubVars
       \/ /\ \/ reqs[i].pc = "read" /\ reqs[i].pos = NoPos
             \/ reqs[i].pc = "delete"
          /\ broadcastToUser(User, "positionClosed")
          /\ reqs' = [reqs EXCEPT ![i].pc = "done", ![i].status = 200,
                                    ![i].events = Append(@, "positionClosed")]
          /\ UNCHANGED <<positions, logs>>

\* Requests to close a position, on a store with or without a row for the
\* symbol and with or without an API key, the dashboard connected.
InitClose ==
    /\ apiKey \in KeyKinds
    /\ botSettings = NoBody
    /\ positions \in {{}, {PositionRow(1, "BTCUSD", 1, 100, 100)}}
    /\ nextPosId = 2
    /\ trades = <<>>
    /\ logs = <<>>
    /\ metrics = FALSE
    /\ activeBots = NoTimer
    /\ timers = <<>>
    /\ marketDataCache = [s \in Symbols |-> 0]
    /\ reqs = <<>>
    /\ starts = <<>>
    /\ scheds = <<>>
    /\ ticks = <<>>
    /\ modelLoaded = FALSE
    /\ startSinceStop = TRUE
    /\ firedAfterStop = FALSE
    /\ Dashboard

NextClose ==
    \/ \E sym \in Symbols : CloseArrive(sym)
    \/ \E i \in DOMAIN reqs : CloseStep(i)

SpecClose == InitClose /\ [][NextClose]_vars

\* -------------------------- the client hook useWebSocket (useWebSocket.ts)
\* hook.sockets: the WebSocket objects the hook has created, by readyState;
\*   a socket becomes CLOSED in the task that delivers its close event
\* hook.timers: the reconnect timeouts created, TRUE while pending
\* hook.socketRef, hook.reconnectTimeoutRef: the refs, 0 for null
\* hook.idle: disconnect() was called and the caller has not called
\*   connect() since;  hook.last: what ran last
serverVars == <<apiKey, botSettings, positions, nextPosId, trades, logs, metrics,
                activeBots, timers, marketDataCache, reqs, starts, scheds, ticks,
                modelLoaded, startSinceStop, firedAfterStop, activeConnections,
                sockets, sent, mockTimers, rl, keyRow>>

\* WebSocket.close(): a socket that is CONNECTING or OPEN starts closing
closeSocket(socks, s) ==
    IF s # 0 /\ socks[s] \in {"CONNECTING", "OPEN"}
      THEN [socks EXCEPT ![s] = "CLOSING"]
      ELSE socks

\* clearTimeout(reconnectTimeoutRef.current) when the ref is set
clearReconnect(tms, t) == IF t # 0 THEN [tms EXCEPT ![t] = FALSE] ELSE tms

\* lines 11-60: connect(), called by the component (the mount effect of
\* 109-119 or the returned function) or by a reconnect timeout (47-49),
\* which is then no longer pending.  The socket in socketRef is closed
\* (15-17), the timeout in reconnectTimeoutRef cleared (20-23), and a new
\* socket created and stored in socketRef (29-30).
HookConnect ==
    /\ Len(hook.sockets) < MaxSockets
    /\ \E by \in {0} \cup {t \in DOMAIN hook.timers : hook.timers[t]} :
          LET fired == IF by = 0 THEN hook.timers
                       ELSE [hook.timers EXCEPT ![by] = FALSE]
          IN hook' = [hook EXCEPT
                 !.sockets = Append(closeSocket(hook.sockets, hook.socketRef),
                                    "CONNECTING"),
                 !.socketRef = Len(hook.sockets) + 1,
                 !.timers = clearReconnect(fired, hook.reconnectTimeoutRef),
                 !.reconnectTimeoutRef = 0,
                 !.idle = IF by = 0 THEN FALSE ELSE hook.idle,
                 !.last = IF by = 0 THEN "connect" ELSE "timer"]
    /\ UNCHANGED serverVars

\* lines 63-75: disconnect()
HookDisconnect ==
    /\ hook' = [hook EXCEPT
           !.sockets = closeSocket(hook.sockets, hook.socketRef),
           !.socketRef = 0,
           !.timers = clearReconnect(hook.timers, hook.reconnectTimeoutRef),
           !.reconnectTimeoutRef = 0,
           !.connected = FALSE,
           !.idle = TRUE,
           !.last = "disconnect"]
    /\ UNCHANGED serverVars

\* lines 32-41: the connection of socket s is established; onopen
HookOpen(s) ==
    /\ hook.sockets[s] = "CONNECTING"
    /\ hook' = [hook EXCEPT !.sockets[s] = "OPEN", !.connected = TRUE,
                            !.last = "open"]
    /\ UNCHANGED serverVars

\* lines 43-50: the close event of socket s is delivered, after close(),
\* after the server or the network ended the connection, or after the
\* connection could not be established; onclose sets a reconnect timeout
\* and stores it in reconnectTimeoutRef
HookClose(s) ==
    /\ hook.sockets[s] # "CLOSED"
    /\ hook' = [hook EXCEPT !.sockets[s] = "CLOSED", !.connected = FALSE,
                            !.timers = Append(@, TRUE),
                            !.reconnectTimeoutRef = Len(hook.timers) + 1,
                            !.last = "close"]
    /\ UNCHANGED serverVars

NextClient ==
    \/ HookConnect
    \/ HookDisconnect
    \/ \E s \in DOMAIN hook.sockets : HookOpen(s)
    \/ \E s \in DOMAIN hook.sockets : HookClose(s)

SpecClient == InitHub /\ [][NextClient]_vars

\* generateSignal of the learned-model strategy on its inputs: the model
\* loaded or not, the points stored per symbol, the window passed and what
\* the network does.
DataLengths == {1, 29, 30}

InitSignal ==
    /\ apiKey = "test"
    /\ botSettings = NoBody
    /\ positions = {} /\ nextPosId = 1
    /\ trades = <<>> /\ logs = <<>> /\ metrics = FALSE
    /\ activeBots = NoTimer /\ timers = <<>>
    /\ marketDataCache = [s \in Symbols |-> 0]
    /\ reqs = <<>> /\ starts = <<>> /\ scheds = <<>> /\ ticks = <<>>
    /\ modelLoaded \in BOOLEAN
    /\ startSinceStop = TRUE /\ firedAfterStop = FALSE
    /\ activeConnections = <<>>
    /\ sockets = [c \in Conns |-> NewSocket]
    /\ sent = 0 /\ mockTimers = 0 /\ hook = NoHook
    /\ rl \in {[NoRl EXCEPT !.marketData = st] : st \in [Symbols -> StoredCounts]}
    /\ keyRow = NoKeyRow

NextSignal ==
    \E sym \in Symbols, n \in DataLengths, pr \in Predictions : RlCall(sym, n, pr)

SpecSignal == InitSignal /\ [][NextSignal]_vars

\* ------------------------------------ POST /api/api-keys (667-735)
\* A key is the sequence of its parts, so that 'TEST_KEY' is <<"TEST_", "KEY">>
\* and startsWith('TEST_') looks at the first part.
TestKey == <<"TEST_", "KEY">>
KeyInputs == {TestKey, <<"TEST_", "1">>, <<"PK", "1">>}
SecretInputs == {TestKey, <<"SK", "1">>}

\* schema.ts 85-90: environment is a text column, any string validates
Environments == {"paper", "live", "production"}

\* lines 672-673 (also 503-504, 944-945 and alpaca.ts 24)
startsWithTest(k) == k = TestKey \/ (Len(k) > 0 /\ Head(k) = "TEST_")

\* lines 676-685: validatedData after the test-mode branch
validatedData(body) ==
    IF startsWithTest(body.alpacaApiKey)
      THEN [alpacaApiKey |-> TestKey, alpacaSecretKey |-> TestKey,
            environment |-> IF body.environment = "live" THEN "paper"
                            ELSE body.environment]
      ELSE body

\* alpaca.ts 13-18: the endpoint of the client built from a stored row,
\* getAlpacaClient(key, secret, environment === 'paper')
baseUrl(row) ==
    IF row.environment = "paper" THEN "https://paper-api.alpaca.markets/v2"
                                 ELSE "https://api.alpaca.markets"

\* lines 667-695: the body validates; test-mode keys are rewritten and
\* storage.getApiKeyByUserId is called, other keys are first tried with
\* alpaca.getAccount
KeysArrive(body) ==
    /\ Len(reqs) < MaxReqs
    /\ reqs' = Append(reqs,
          [kind |-> "apiKeys",
           pc |-> IF startsWithTest(body.alpacaApiKey) THEN "read" ELSE "validate",
           body |-> validatedData(body), key |-> getApiKeyByUserId,
           conn |-> NoConn, user |-> User, status |-> 0])
    /\ UNCHANGED <<storeVars, activeBots, timers, marketDataCache, starts, scheds,
                   ticks, modelLoaded, startSinceStop, firedAfterStop>>
    /\ UNCHANGED hubVars

\* lines 686-727, one disjunct per await:
\*   694-698 getAccount rejected: 400; resolved: storage.getApiKeyByUserId
\*   701-709 the read returned: updateApiKey or createApiKey with validatedData
\*   704-717 the write returned: the reply, then the INFO log
\*   720-727 the log returned: apiKeyUpdate is broadcast
KeysStep(i) ==
    /\ reqs[i].kind = "apiKeys"
    /\ UNCHANGED <<botSettings, positions, nextPosId, trades, metrics, activeBots,
                   timers, marketDataCache, starts, scheds, ticks, modelLoaded,
                   startSinceStop, firedAfterStop>>
    /\ \/ /\ reqs[i].pc = "validate"
          /\ \/ reqs' = [reqs EXCEPT ![i].pc = "done", ![i].status = 400]
             \/ reqs' = [reqs EXCEPT ![i].pc = "read", ![i].key = getApiKeyByUserId]
          /\ UNCHANGED <<apiKey, logs>>
          /\ UNCHANGED hubVars
       \/ /\ reqs[i].pc = "read"
          /\ keyRow' = reqs[i].body
          /\ apiKey' = (IF startsWithTest(reqs[i].body.alpacaApiKey)
                          THEN "test" ELSE "live")
          /\ reqs' = [reqs EXCEPT ![i].pc = "write"]
          /\ UNCHANGED <<logs, activeConnections, sockets, sent, mockTimers, hook,
                         rl>>
       \/ /\ reqs[i].pc = "write"
          /\ logs' = createSystemLog("INFO")
          /\ reqs' = [reqs EXCEPT ![i].pc = "log", ![i].status = 200]
          /\ UNCHANGED apiKey
          /\ UNCHANGED hubVars
       \/ /\ reqs[i].pc = "log"
          /\ reqs' = [reqs EXCEPT ![i].pc = "done"]
          /\ broadcastToUser(User, "apiKeyUpdate")
          /\ UNCHANGED <<apiKey, logs>>

\* Requests that store API keys, for a user without a key whose dashboard
\* is connected.
InitKeys ==
    /\ apiKey = "none"
    /\ botSettings = NoBody
    /\ positions = {} /\ nextPosId = 1
    /\ trades = <<>> /\ logs = <<>> /\ metrics = FALSE
    /\ activeBots = NoTimer /\ timers = <<>>
    /\ marketDataCache = [s \in Symbols |-> 0]
    /\ reqs = <<>> /\ starts = <<>> /\ scheds = <<>> /\ ticks = <<>>
    /\ modelLoaded = FALSE
    /\ startSinceStop = TRUE /\ firedAfterStop = FALSE
    /\ Dashboard

NextKeys ==
    \/ \E k \in KeyInputs, sk \in SecretInputs, e \in Environments :
          KeysArrive([alpacaApiKey |-> k, alpacaSecretKey |-> sk, environment |-> e])
    \/ \E i \in DOMAIN reqs : KeysStep(i)

SpecKeys == InitKeys /\ [][NextKeys]_vars

\* The order step (lines 194-253) on its inputs: an active bot of either
\* strategy, an API key, and a tick whose signal has passed the gate of line
\* 182.  The account value and the broker client of signalToOrder are drawn
\* in TickAccount.
OrderPrices == {100}

InitOrder ==
    /\ apiKey \in KeyKinds \ {"none"}
    /\ botSettings \in {r \in SettingsRows : r.isActive /\ r.tradingFrequency = "medium"}
    /\ positions = {} /\ nextPosId = 1
    /\ trades = <<>>
    /\ logs = <<"SIGNAL">>
    /\ metrics = FALSE
    /\ activeBots = NoTimer
    /\ timers = <<>>
    /\ reqs = <<>>
    /\ starts = <<>>
    /\ scheds = <<>>
    /\ modelLoaded = FALSE
    /\ startSinceStop = TRUE
    /\ firedAfterStop = FALSE
    /\ NoHub
    /\ \E sym \in Symbols, p \in OrderPrices :
         /\ marketDataCache = [s \in Symbols |-> IF s = sym THEN p ELSE 0]
         /\ \E sig \in {g \in analyze(sym) : Admitted(g)} :
              ticks = <<[pc |-> "account", symbol |-> sym, price |-> p,
                         valid |-> TRUE, key |-> apiKey, pos |-> NoPos,
                         rowsBefore |-> {}, updated |-> NoPos,
                         hadMetrics |-> FALSE, settings |-> botSettings,
                         signal |-> sig, order |-> NoOrder, sizing |-> NotSized,
                         window |-> p,
                         events |-> <<"cache", "marketData", "signalLog",
                                      "strategySignal">>]>>

OrderStep(i) ==
    TickAccount(i) \/ TickSubmit(i) \/ TickTrade(i) \/ TickEnd(i)

NextOrder == \E i \in DOMAIN ticks : OrderStep(i)

SpecOrder == InitOrder /\ [][NextOrder]_vars

\* The tick handler with the dashboard connected: the bot is active under a
\* rule-based strategy, the user holds a BTCUSD position and has a metrics
\* row, and the connection c1 is open and listed.
InitNotify ==
    /\ apiKey \in KeyKinds \ {"none"}
    /\ botSettings = [isActive |-> TRUE, strategy |-> "momentum",
                      tradingFrequency |-> "medium"]
    /\ positions = {PositionRow(1, "BTCUSD", 1, 100, 100)} /\ nextPosId = 2
    /\ trades = <<>>
    /\ logs = <<>>
    /\ metrics = TRUE
    /\ activeBots = NoTimer
    /\ timers = <<>>
    /\ marketDataCache = [s \in Symbols |-> 0]
    /\ reqs = <<>>
    /\ starts = <<>>
    /\ scheds = <<>>
    /\ ticks = <<>>
    /\ modelLoaded = FALSE
    /\ startSinceStop = TRUE
    /\ firedAfterStop = FALSE
    /\ Dashboard

SpecNotify == InitNotify /\ [][NextTick]_vars

\* ----------------------------------------------------------------- claims
AllSettled ==
    /\ \A i \in DOMAIN reqs : ReqDone(reqs[i])
    /\ \A i \in DOMAIN starts : starts[i].pc = "done"

\* C1: under any interleaving of startTradingBot and stopTradingBot calls the
\* user has at most one live interval timer, and every live timer is the one
\* recorded in activeBots.
C1_AtMostOneLiveTimer ==
    /\ Cardinality(LiveTimers) <= 1
    /\ \A t \in LiveTimers : activeBots = t

\* C2: a startBot message followed by a stopBot message, once both handlers
\* and the startTradingBot call they spawned have completed, leaves
\* isActive = false, no entry in activeBots and no live timer.
C2_StartThenStopLeavesStopped ==
    ( /\ Len(reqs) = 2
      /\ reqs[1].kind = "startBot"
      /\ reqs[2].kind = "stopBot"
      /\ AllSettled )
    => ( /\ ~botSettings.isActive
         /\ activeBots = NoTimer
         /\ LiveTimers = {} )

\* C3: after a stop request's stopTradingBot call has returned, no callback of
\* an interval starts unless a start was requested after that stop.
C3_NoTickAfterStop == ~firedAfterStop


\* C4: a tick whose signal is hold, or has a confidence of at most 70, calls
\* submitOrder never and creates no trade record; the only trade records are
\* those of invocations that passed the gate.
C4_GateBlocksOrder ==
    /\ \A i \in DOMAIN ticks :
         (Did(ticks[i], "strategySignal") /\ (ticks[i].signal.action = "hold"
                                   \/ ticks[i].signal.confidence <= 70))
         => (~Did(ticks[i], "submitOrder") /\ ~Did(ticks[i], "createTrade"))
    /\ Len(trades) = Cardinality({jj \in DOMAIN ticks : Did(ticks[jj], "createTrade")})

C4_Witness ==
    \E i \in DOMAIN ticks :
        /\ ticks[i].pc = "done" /\ Did(ticks[i], "strategySignal")
        /\ ticks[i].signal.action = "buy" /\ ticks[i].signal.confidence = 70
        /\ apiKey # "none"

\* C5: when submitOrder throws, the invocation creates no trade record and
\* broadcasts no orderUpdate, and one ERROR system log entry is appended.
C5_RejectedOrderLogged ==
    /\ \A i \in DOMAIN ticks :
         Did(ticks[i], "submitFailed")
         => ( /\ ~Did(ticks[i], "createTrade")
              /\ ~Did(ticks[i], "orderUpdate")
              /\ ~Did(ticks[i], "tradeLog")
              /\ Did(ticks[i], "errorLog") )
    /\ Cardinality({kk \in DOMAIN logs : logs[kk] = "ERROR"}) = Cardinality({jj \in DOMAIN ticks : Did(ticks[jj], "submitFailed")})

C5_Witness ==
    \E i \in DOMAIN ticks :
        /\ ticks[i].pc = "done" /\ Did(ticks[i], "submitFailed")
        /\ Cardinality({kk \in DOMAIN logs : logs[kk] = "ERROR"}) = 1 /\ trades = <<>>

\* C6: one invocation of the tick handler calls submitOrder at most once,
\* whether the call succeeds or fails.
C6_AtMostOneSubmit ==
    \A i \in DOMAIN ticks : Count(ticks[i], "submitOrder") <= 1

C6_Witness ==
    /\ \E i \in DOMAIN ticks :
         /\ ticks[i].pc = "done" /\ Did(ticks[i], "submitFailed")
         /\ Count(ticks[i], "submitOrder") = 1
    /\ \E i \in DOMAIN ticks :
         /\ ticks[i].pc = "done" /\ Did(ticks[i], "orderUpdate")
         /\ Count(ticks[i], "submitOrder") = 1

\* C7: for a non-hold signal with confidence above 70 of a rule-based
\* strategy, with an API key and a successful getAccount, the handler calls
\* submitOrder exactly once, with the signal's symbol, the signal's action as
\* side, a positive quantity and type market.
C7_AdmittedSignalSubmitsOrder ==
    \A i \in DOMAIN ticks :
        LET t == ticks[i] IN
        ( /\ t.pc = "done" /\ Did(t, "strategySignal")
          /\ t.settings.strategy # "reinforcement"
          /\ t.signal.action # "hold" /\ t.signal.confidence > 70
          /\ t.key # "none" /\ ~Did(t, "accountFailed") )
        => ( /\ Count(t, "submitOrder") = 1
             /\ t.order.symbol = t.signal.symbol
             /\ t.order.symbol = t.symbol
             /\ t.order.side = t.signal.action
             /\ t.order.qty > 0
             /\ t.order.type = "market" )

C7_Witness ==
    \E i \in DOMAIN ticks :
        LET t == ticks[i] IN
        /\ t.pc = "done" /\ t.symbol = "ETHUSD"
        /\ t.signal.action = "buy" /\ t.signal.confidence = 85
        /\ t.settings.strategy = "momentum"
        /\ Did(t, "orderUpdate")
        /\ t.order.side = "buy" /\ t.order.symbol = "ETHUSD" /\ t.order.qty = DefaultQty

\* C8: an invocation whose tick symbol has no stored position (in the rows it
\* read at line 71) never changes the stored positions, updates or creates
\* none, and broadcasts no positionUpdate.
NoRowRead(t) ==
    /\ t.pc # "parse" /\ t.valid
    /\ \A r \in t.rowsBefore : r.symbol # t.symbol

C8_NoPositionNoReconcile ==
    [][\A i \in DOMAIN ticks :
         (NoRowRead(ticks[i]) /\ ticks'[i] # ticks[i])
         => ( /\ positions' = positions
              /\ nextPosId' = nextPosId
              /\ ~Did(ticks'[i], "updatePosition")
              /\ ~Did(ticks'[i], "positionUpdate") )]_vars

C8_Witness ==
    \E i \in DOMAIN ticks :
        /\ ticks[i].pc = "done" /\ NoRowRead(ticks[i])
        /\ ticks[i].rowsBefore # {}
        /\ ticks[i].price # 100
        /\ positions = ticks[i].rowsBefore

\* C9: a reconciliation of a position read with qty q and entry price e by a
\* tick of price p stores currentPrice = p, unrealizedPl = q * (p - e) and
\* unrealizedPlPerc = (p - e) / e * 100; for q = 1 and e = 100 the prices
\* 100, 105, 95 give unrealizedPl 0, 5, -5 and unrealizedPlPerc 0, 5, -5.
C9_ReconciledValues ==
    \A i \in DOMAIN ticks :
        LET t == ticks[i]
            u == t.updated
            q == t.pos.qty
            e == t.pos.entryPrice
            p == t.price
        IN Did(t, "updatePosition")
           => ( /\ u.currentPrice = p
                /\ u.unrealizedPl = q * (p - e)
                /\ u.unrealizedPlPerc * e = (p - e) * 100
                /\ (q = 1 /\ e = 100 /\ p = 100)
                     => (u.unrealizedPl = 0 /\ u.unrealizedPlPerc = 0)
                /\ (q = 1 /\ e = 100 /\ p = 105)
                     => (u.unrealizedPl = 5 /\ u.unrealizedPlPerc = 5)
                /\ (q = 1 /\ e = 100 /\ p = 95)
                     => (u.unrealizedPl = -5 /\ u.unrealizedPlPerc = -5) )

C9_Witness ==
    /\ Len(ticks) = 3
    /\ \A i \in DOMAIN ticks : ticks[i].pc = "done" /\ ticks[i].pos.qty = 1
                                 /\ ticks[i].pos.entryPrice = 100
    /\ <<ticks[1].price, ticks[2].price, ticks[3].price>> = <<100, 105, 95>>
    /\ <<ticks[1].updated.unrealizedPl, ticks[2].updated.unrealizedPl,
         ticks[3].updated.unrealizedPl>> = <<0, 5, -5>>
    /\ <<ticks[1].updated.unrealizedPlPerc, ticks[2].updated.unrealizedPlPerc,
         ticks[3].updated.unrealizedPlPerc>> = <<0, 5, -5>>
    /\ ticks[2].pos.currentPrice = 100 /\ ticks[3].pos.currentPrice = 105
    /\ positions = {ticks[3].updated}

\* the start state of SpecUpsert is a state of the lifecycle
RunningReached ==
    \E key \in KeyKinds \ {"none"} :
        Running(key, [isActive |-> TRUE, strategy |-> "momentum",
                      tradingFrequency |-> "medium"])

\* C10: every stored position has marketValue = qty * currentPrice and
\* unrealizedPl = qty * (currentPrice - entryPrice), whatever the
\* interleaving of tick reconciliations and scheduler upserts.
C10_PositionInvariant ==
    \A r \in positions :
        /\ r.marketValue = r.qty * r.currentPrice
        /\ r.unrealizedPl = r.qty * (r.currentPrice - r.entryPrice)

\* ------------------------------------------------------- the connections
\* a step in which tick handler i reaches the marketData broadcast of line 65
BroadcastsTick(i) ==
    /\ i \in DOMAIN ticks
    /\ ~Did(ticks[i], "marketData")
    /\ Did(ticks'[i], "marketData")

Listed(u) == IF u \in DOMAIN activeConnections THEN activeConnections[u] ELSE <<>>
Occurrences(list, c) == Cardinality({k \in DOMAIN list : list[k] = c})

\* C11: a broadcast for a user without registered connections changes
\* nothing: no message is sent, counted or kept, and a step that registers a
\* connection delivers nothing to it.
C11_BroadcastWithoutSessions ==
    [][ /\ \A i \in DOMAIN ticks :
             (BroadcastsTick(i) /\ User \notin DOMAIN activeConnections)
                => UNCHANGED hubVars
        /\ activeConnections' # activeConnections
             => \A c \in Conns : sockets'[c].inbox = sockets[c].inbox ]_vars

C11_Witness ==
    /\ sent = 0
    /\ \E i \in DOMAIN ticks : Did(ticks[i], "marketData")
    /\ \E c \in Conns :
          /\ Occurrences(Listed(User), c) = 1
          /\ sockets[c].inbox = <<Message("initialData", 0)>>

\* C12: one broadcast delivers the message exactly once to every OPEN
\* connection of the user's list and nothing to any other connection.
C12_ExactlyOncePerOpenConnection ==
    [][ \A i \in DOMAIN ticks :
          BroadcastsTick(i)
            => \A c \in Conns :
                 Len(sockets'[c].inbox) - Len(sockets[c].inbox) = IF /\ Occurrences(Listed(User), c) > 0
                                  /\ sockets[c].readyState = "OPEN"
                               THEN 1 ELSE 0 ]_vars

\* C13: no userId of activeConnections is mapped to an empty list.
C13_NoEmptyList ==
    \A u \in DOMAIN activeConnections : activeConnections[u] # <<>>

C13_Witness ==
    /\ activeConnections = <<>>
    /\ \E c \in Conns : sockets[c].closeEvent = "handled" /\ sockets[c].userId # NoUser

\* C14: a connection whose close event has been handled is in no list.
C14_ClosedIsUnlisted ==
    \A c \in Conns :
        sockets[c].closeEvent = "handled"
          => \A u \in Users : Occurrences(Listed(u), c) = 0

\* C15: a live connection is listed under at most one user, at most once.
C15_OneSessionPerConnection ==
    \A c \in Conns :
        sockets[c].readyState = "OPEN"
          => /\ Cardinality({u \in Users : Occurrences(Listed(u), c) > 0}) <= 1
             /\ \A u \in Users : Occurrences(Listed(u), c) <= 1

\* C16: the first message a connection is sent is initialData.
C16_InitialDataFirst ==
    \A c \in Conns :
        sockets[c].inbox # <<>> => sockets[c].inbox[1].type = "initialData"

\* C17: the messages of two broadcasts reach a connection in the order of
\* the two calls.
C17_BroadcastOrder ==
    \A c \in Conns :
        \A j, k \in DOMAIN sockets[c].inbox :
            LET a == sockets[c].inbox[j]
                b == sockets[c].inbox[k]
            IN (j < k /\ a.n > 0 /\ b.n > 0) => a.n <= b.n

C17_Witness ==
    \E c \in Conns :
        /\ sockets[c].readyState = "OPEN"
        /\ \E j, k \in DOMAIN sockets[c].inbox :
              /\ j < k
              /\ sockets[c].inbox[j] = Message("marketData", 1)
              /\ sockets[c].inbox[k] = Message("marketData", 2)

\* ------------------------------------------- the pipeline and its failures
Before(t, e1, e2) ==
    \E j, k \in DOMAIN t.events : j < k /\ t.events[j] = e1 /\ t.events[k] = e2

\* C18: every valid tick that has been handled has updated the cache and
\* then broadcast marketData, whatever call of the handler failed.
C18_CacheAndBroadcastAlways ==
    \A i \in DOMAIN ticks :
        (ticks[i].valid /\ ticks[i].pc = "done")
           => Before(ticks[i], "cache", "marketData")

\* C19: the strategy is evaluated, the SIGNAL log written, strategySignal
\* broadcast and an order submitted only in an invocation that read
\* isActive = true; the log precedes the broadcast, which precedes the order.
C19_EvaluationOnlyWhenActive ==
    \A i \in DOMAIN ticks :
        LET t == ticks[i]
        IN /\ ( \/ t.signal # NoSignal \/ Did(t, "signalLog")
                \/ Did(t, "strategySignal") \/ Did(t, "submitOrder") )
                => t.settings.isActive
           /\ Did(t, "strategySignal") => Before(t, "signalLog", "strategySignal")
           /\ Did(t, "submitOrder") => Before(t, "strategySignal", "submitOrder")
           /\ ~Before(t, "strategySignal", "signalLog")
           /\ ~Before(t, "submitOrder", "strategySignal")

C19_Witness ==
    \E i \in DOMAIN ticks :
        /\ ticks[i].pc = "done"
        /\ ticks[i].settings.isActive
        /\ Before(ticks[i], "signalLog", "strategySignal")
        /\ Before(ticks[i], "strategySignal", "submitOrder")

\* C20: an invocation whose reconciliation call failed has ended, fulfilled,
\* without evaluating the strategy or submitting an order; the tick after it
\* runs its whole pipeline.
C20_ReconcileFailureIsolated ==
    \A i \in DOMAIN ticks :
        LET t == ticks[i]
        IN Did(t, "reconcileFailed")
             => /\ t.pc = "done"
                /\ t.signal = NoSignal
                /\ ~Did(t, "signalLog") /\ ~Did(t, "strategySignal")
                /\ ~Did(t, "submitOrder") /\ ~Did(t, "updatePosition")

C20_Witness ==
    /\ Len(ticks) = 2
    /\ Did(ticks[1], "reconcileFailed")
    /\ ticks[1].pos # NoPos
    /\ ticks[2].pc = "done"
    /\ Did(ticks[2], "updatePosition")
    /\ Did(ticks[2], "createTrade")

\* C21: an invocation in which getAccount or submitOrder failed has ended
\* without a further order and without a trade record, and has appended an
\* ERROR system log.
C21_BrokerFailureLogged ==
    \A i \in DOMAIN ticks :
        LET t == ticks[i]
        IN (t.pc = "done" /\ (Did(t, "accountFailed") \/ Did(t, "submitFailed")))
             => /\ Did(t, "errorLog")
                /\ ~Did(t, "createTrade")
                /\ Count(t, "submitOrder") <= 1

C23_OneTradePerAcknowledgment ==
    \A i \in DOMAIN ticks :
        LET t == ticks[i]
        IN /\ Did(t, "createTrade") => (Did(t, "tradeLog") \/ Did(t, "tradeLogFailed"))
           /\ (t.pc = "done" /\ (Did(t, "tradeLog") \/ Did(t, "tradeLogFailed"))) => Count(t, "createTrade") = 1

\* C24: the timer armed by startTradingBot has the period looked up from the
\* tradingFrequency of the settings it read, and from nothing else: 300
\* seconds for low, 60 for medium, 10 for high, 60 for any other value.
C24_PeriodByFrequency ==
    [][\A i \in DOMAIN starts :
          (starts[i].pc = "arm" /\ starts'[i].pc = "done")
            => /\ Len(timers') = Len(timers) + 1
               /\ timers'[Len(timers')].period =
                    (CASE starts[i].settings.tradingFrequency = "low" -> 300 * 1000
                       [] starts[i].settings.tradingFrequency = "medium" -> 60 * 1000
                       [] starts[i].settings.tradingFrequency = "high" -> 10 * 1000
                       [] OTHER -> 60 * 1000)]_vars

C24_Witness ==
    /\ \E i \in DOMAIN starts :
          /\ starts[i].pc = "done"
          /\ starts[i].settings.tradingFrequency = "high"
          /\ starts[i].settings.strategy = "reinforcement"
    /\ \E j \in DOMAIN starts :
          /\ starts[j].pc = "done"
          /\ starts[j].settings.tradingFrequency = "hourly"
          /\ starts[j].settings.strategy = "momentum"
    /\ Len(timers) = 2
    /\ {timers[t].period : t \in DOMAIN timers} = {10 * 1000, 60 * 1000}

\* C25: the step of an interval callback in which a broker or store call
\* fails appends an ERROR system log and leaves the timer registered and
\* live; no step of a callback ever clears or replaces the timer, so the
\* interval goes on firing.
SchedFails(i) ==
    /\ i \in DOMAIN scheds
    /\ scheds[i].pc \notin {"caught", "failed"}
    /\ scheds'[i].pc = "caught"

C25_SchedulerFailureKeepsTimer ==
    [][/\ \A i \in DOMAIN scheds :
             SchedFails(i) => /\ logs' = Append(logs, "ERROR")
                              /\ activeBots' = scheds[i].timer
                              /\ timers'[scheds[i].timer].live
       /\ timers' = timers
       /\ activeBots' = activeBots
       /\ \A t \in LiveTimers : ENABLED SchedFire(t)]_vars

C25_Witness ==
    /\ Len(scheds) = 2
    /\ scheds[1].pc = "failed" /\ scheds[2].pc = "done"
    /\ scheds[1].timer = scheds[2].timer
    /\ timers[scheds[1].timer].live /\ activeBots = scheds[1].timer
    /\ \E k \in DOMAIN logs : logs[k] = "ERROR"

\* C26: no invocation of the interval callback ends with a rejected promise.
C26_NoRejectedPromise ==
    \A i \in DOMAIN scheds : scheds[i].pc # "rejected"

\* C30: the stored positions hold at most one row per symbol.
C30_OnePositionPerSymbol ==
    \A r1 \in positions, r2 \in positions : r1.symbol = r2.symbol => r1.id = r2.id

\* C27: an invocation of the tick handler that wrote an ERROR system log has,
\* when it ends, had a newLog message delivered to the user's open
\* connection.
C27_ErrorLogIsBroadcast ==
    \A i \in DOMAIN ticks :
        (ticks[i].pc = "done" /\ Did(ticks[i], "errorLog"))
          => \A c \in Conns :
                (sockets[c].readyState = "OPEN" /\ Occurrences(Listed(User), c) > 0)
                  => \E k \in DOMAIN sockets[c].inbox :
                        sockets[c].inbox[k].type = "newLog"

\* C28: every message passed to broadcastToUser (numbered from 1; the
\* initialData reply is sent on the socket directly) has one of the eleven
\* listed types.
C28_BroadcastTypesListed ==
    \A c \in Conns : \A k \in DOMAIN sockets[c].inbox :
        sockets[c].inbox[k].n > 0
          => sockets[c].inbox[k].type \in
               {"marketData", "positionUpdate", "accountUpdate", "strategySignal",
                "orderUpdate", "newLog", "logsClear", "botSettingsUpdate",
                "apiKeyUpdate", "positionClosed", "botStatus"}

\* C29: a startBot message of the authenticated user, once its handler and
\* the startTradingBot call it spawned have completed and nothing else was
\* requested, has left isActive = true, a live interval recorded in
\* activeBots, and a botStatus message on the user's connection.
C29_StartBotTakesEffect ==
    ( /\ Len(reqs) = 1
      /\ reqs[1].kind = "startBot"
      /\ AllSettled )
    => ( /\ botSettings.isActive
         /\ activeBots \in LiveTimers
         /\ \E k \in DOMAIN sockets["c1"].inbox :
               sockets["c1"].inbox[k].type = "botStatus" )

\* C32: a startTradingBot call made while a handle H is registered clears H
\* in the step of the call, before its first await; a cleared timer never
\* becomes live again and no callback starts from a timer that is not live;
\* and when no other start or stop was in flight from the call to its
\* completion, the call completes by registering a new live timer whose
\* period is the one of the tradingFrequency it read.
C32_RestartReplacesHandle ==
    [][/\ \A i \in DOMAIN starts' \ DOMAIN starts :
             starts'[i].cleared # NoTimer
               => /\ ~timers'[starts'[i].cleared].live
                  /\ activeBots' = NoTimer
       /\ \A t \in DOMAIN timers : ~timers[t].live => ~timers'[t].live
       /\ Len(scheds') > Len(scheds) => timers[scheds'[Len(scheds')].timer].live
       /\ \A i \in DOMAIN starts :
             ( /\ starts[i].pc # "done" /\ starts'[i].pc = "done"
               /\ starts[i].cleared # NoTimer
               /\ starts[i].alone = Len(reqs)
               /\ \A k \in DOMAIN starts \ {i} : starts[k].pc = "done"
               /\ Cardinality({k \in DOMAIN reqs : ~ReqDone(reqs[k])}) <= 1 )
             => /\ Len(timers') = Len(timers) + 1
                /\ activeBots' = Len(timers')
                /\ activeBots' # starts[i].cleared
                /\ timers'[activeBots'].live
                /\ timers'[activeBots'].period =
                     updateInterval(starts[i].settings.tradingFrequency)]_vars

C32_Witness ==
    /\ Len(starts) = 2 /\ AllSettled
    /\ starts[2].cleared = 1 /\ starts[2].alone = 2
    /\ ~timers[1].live /\ timers[2].live /\ activeBots = 2
    /\ timers[1].period = IntervalMedium /\ timers[2].period = IntervalHigh
    /\ \E k \in DOMAIN scheds : scheds[k].timer = 2

\* C33: whenever every handler and every startTradingBot call has completed,
\* a live interval timer implies isActive = true.
C33_LiveHandleImpliesActive ==
    AllSettled => (LiveTimers # {} => botSettings.isActive)

\* C34: an invocation of the tick handler that read strategy = reinforcement
\* never calls submitOrder (nor reaches getAccount): its signal is not
\* admitted by the gate.
C34_ReinforcementNeverOrders ==
    \A i \in DOMAIN ticks :
        LET t == ticks[i]
        IN (t.settings # NoBody /\ t.settings.strategy = "reinforcement")
             => /\ ~Did(t, "submitOrder")
                /\ ~Did(t, "accountFailed")
                /\ t.pc \notin {"order", "account", "submit", "trade"}
                /\ t.signal # NoSignal => ~Admitted(t.signal)

C34_Witness ==
    /\ modelLoaded
    /\ apiKey = "live"
    /\ \E i \in DOMAIN ticks :
          /\ ticks[i].pc = "done"
          /\ ticks[i].settings # NoBody
          /\ ticks[i].settings.isActive
          /\ ticks[i].settings.strategy = "reinforcement"
          /\ Did(ticks[i], "strategySignal")
          /\ ticks[i].signal.action = "hold" /\ ticks[i].signal.confidence = 0

\* C35: the historical window an invocation passes to the strategy holds the
\* tick the invocation was called with, whatever other ticks were handled.
C35_WindowIsOwnTick ==
    \A i \in DOMAIN ticks :
        Did(ticks[i], "signalLog") => ticks[i].window = ticks[i].price

\* C37: for a test-mode user, the number of live mock-market-data intervals
\* never exceeds the number of the user's registered connections.
C37_GeneratorsWithinConnections == mockTimers <= Len(Listed(User))

\* C36: POST /api/positions/close.  When closePosition fails the request
\* replies 500 having written no TRADE log, deleted no position and broadcast
\* nothing, and the failing step leaves positions, logs and sockets as they
\* were.  When it succeeds, positionClosed is broadcast after the TRADE log
\* and, if a row for the symbol was read, after its deletion: the broadcast
\* step finds the row gone.
C36_CloseFollowsBroker ==
    [][\A i \in DOMAIN reqs :
         (reqs[i].kind = "close" /\ reqs'[i].status # reqs[i].status) =>
            /\ reqs'[i].status = 500 =>
                  /\ reqs'[i].events = <<>>
                  /\ UNCHANGED <<positions, logs, sockets, sent>>
            /\ reqs'[i].status = 200 =>
                  /\ reqs'[i].events =
                        IF reqs[i].pos = NoPos
                          THEN <<"TRADE", "positionClosed">>
                          ELSE <<"TRADE", "deleted", "positionClosed">>
                  /\ reqs[i].pos \notin positions
                  /\ UNCHANGED <<positions, logs>>]_vars

\* one request failed at the broker and another closed the stored position,
\* whose positionClosed reached the dashboard
C36_Witness ==
    \E i, j \in DOMAIN reqs :
       /\ reqs[i].kind = "close" /\ reqs[i].status = 500
       /\ reqs[j].kind = "close" /\ reqs[j].status = 200
       /\ reqs[j].pos # NoPos
       /\ positions = {}
       /\ \E k \in DOMAIN sockets["c1"].inbox :
             sockets["c1"].inbox[k].type = "positionClosed"

\* C39: after disconnect(), while the component does not call connect()
\* again, the hook creates no new WebSocket, and once every socket's close
\* event has been delivered no reconnect timeout is pending.
C39_DisconnectIsFinal ==
    [][(hook.idle /\ hook'.idle) =>
          /\ Len(hook'.sockets) = Len(hook.sockets)
          /\ (\A s \in DOMAIN hook'.sockets : hook'.sockets[s] = "CLOSED") =>
                \A t \in DOMAIN hook'.timers : ~hook'.timers[t]]_vars

\* C40: a socket is closed by the hook only in a connect() or disconnect()
\* call of the component: the connect() that a reconnect timeout runs after
\* the close event of a replaced socket does not close the replacement.
C40_ReplacementSurvives ==
    [][\A s \in DOMAIN hook.sockets :
          (hook.sockets[s] # "CLOSING" /\ hook'.sockets[s] = "CLOSING") =>
             hook'.last \in {"connect", "disconnect"}]_vars

C38_TestKeysStayOnPaper ==
    (keyRow # NoKeyRow /\ startsWithTest(keyRow.alpacaApiKey)) =>
       /\ keyRow.alpacaApiKey = TestKey
       /\ keyRow.alpacaSecretKey = TestKey
       /\ keyRow.environment = "paper"
       /\ baseUrl(keyRow) = "https://paper-api.alpaca.markets/v2"

TypeOK ==
    /\ apiKey \in KeyKinds
    /\ botSettings \in [isActive : BOOLEAN, strategy : Strategies,
                        tradingFrequency : Frequencies]
    /\ activeBots \in {NoTimer} \cup DOMAIN timers
    /\ startSinceStop \in BOOLEAN
    /\ firedAfterStop \in BOOLEAN
    /\ DOMAIN activeConnections \subseteq Users
    /\ \A u \in DOMAIN activeConnections :
          \A k \in DOMAIN activeConnections[u] : activeConnections[u][k] \in Conns
    /\ \A c \in Conns :
          /\ sockets[c].readyState \in {"OPEN", "CLOSED"}
          /\ sockets[c].userId \in Users \cup {NoUser}
          /\ sockets[c].closeEvent \in {"none", "pending", "handled"}
    /\ sent \in Nat
====
